---- MODULE Spec2Model ----
(***************************************************************************)
(* Model of Hello.py: a start-up loader that reads five CSV tables into    *)
(* the dictionary `dataframes`, and seven query operations over it.        *)
(*                                                                         *)
(* Text is modelled as a sequence of one-character strings, so that        *)
(* strip, lower, split, capitalize and regular-expression search are       *)
(* computed character by character.  The characters of the model are       *)
(* U+0000..U+024F and the Unicode spaces above them.  A printable          *)
(* character up to U+00FF other than the backquote is written as itself    *)
(* ("a", "É"), tab, line feed, form feed and carriage return as "\t",      *)
(* "\n", "\f" and "\r", and every other character by its code point:       *)
(* "<U+000B>" is chr(0x0B), "<U+0060>" the backquote, "<U+0100>" is        *)
(* chr(0x100).  So '\x0bflu' is <<"<U+000B>", "f", "l", "u">>.             *)
(*                                                                         *)
(* A missing cell (pandas NaN, a float) is the value NaN below, which is   *)
(* no text: IsStr(NaN) is FALSE.                                           *)
(***************************************************************************)
EXTENDS Integers, Sequences, FiniteSets, TLC

VARIABLES files, dataframes, idx, pc, choice, input, out

vars == <<files, dataframes, idx, pc, choice, input, out>>

(***************************************************************************)
(* Bounds of the model.                                                    *)
(***************************************************************************)
\* most rows of the symptom-disease dataset in the ranking scenarios
MaxRankRows == 4
\* most rows of a table in the matching, lookup and Q&A scenarios
MaxRows == 2

(***************************************************************************)
(* Text primitives (Python str methods used by Hello.py).                  *)
(***************************************************************************)
\* a missing cell: read_csv yields float('nan'), which is not a str
NaN == <<"<nan>">>

\* isinstance(x, str)
IsStr(x) == x # NaN

\* the characters U+0000..U+024F in code-point order: CodePoints[n + 1] is
\* chr(n).  A printable character up to U+00FF other than the backquote
\* is written as itself, tab, line feed, form feed and carriage return by
\* their escapes, and any other character by its code point: "<U+000B>" is
\* chr(0x0B), "<U+0060>" the backquote, "<U+0100>" chr(0x100)
CodePoints ==
    <<"<U+0000>", "<U+0001>", "<U+0002>", "<U+0003>", "<U+0004>", "<U+0005>",
      "<U+0006>", "<U+0007>", "<U+0008>", "\t", "\n", "<U+000B>", "\f", "\r",
      "<U+000E>", "<U+000F>", "<U+0010>", "<U+0011>", "<U+0012>", "<U+0013>",
      "<U+0014>", "<U+0015>", "<U+0016>", "<U+0017>", "<U+0018>", "<U+0019>",
      "<U+001A>", "<U+001B>", "<U+001C>", "<U+001D>", "<U+001E>", "<U+001F>",
      " ", "!", "\"", "#", "$", "%", "&", "'", "(", ")", "*", "+", ",", "-",
      ".", "/", "0", "1", "2", "3", "4", "5", "6", "7", "8", "9", ":", ";",
      "<", "=", ">", "?", "@", "A", "B", "C", "D", "E", "F", "G", "H", "I",
      "J", "K", "L", "M", "N", "O", "P", "Q", "R", "S", "T", "U", "V", "W",
      "X", "Y", "Z", "[", "\\", "]", "^", "_", "<U+0060>", "a", "b", "c",
      "d", "e", "f", "g", "h", "i", "j", "k", "l", "m", "n", "o", "p", "q",
      "r", "s", "t", "u", "v", "w", "x", "y", "z", "{", "|", "}", "~",
      "<U+007F>", "<U+0080>", "<U+0081>", "<U+0082>", "<U+0083>", "<U+0084>",
      "<U+0085>", "<U+0086>", "<U+0087>", "<U+0088>", "<U+0089>", "<U+008A>",
      "<U+008B>", "<U+008C>", "<U+008D>", "<U+008E>", "<U+008F>", "<U+0090>",
      "<U+0091>", "<U+0092>", "<U+0093>", "<U+0094>", "<U+0095>", "<U+0096>",
      "<U+0097>", "<U+0098>", "<U+0099>", "<U+009A>", "<U+009B>", "<U+009C>",
      "<U+009D>", "<U+009E>", "<U+009F>", "<U+00A0>", "¡", "¢", "£", "¤",
      "¥", "¦", "§", "¨", "©", "ª", "«", "¬", "<U+00AD>", "®", "¯", "°", "±",
      "²", "³", "´", "µ", "¶", "·", "¸", "¹", "º", "»", "¼", "½", "¾", "¿",
      "À", "Á", "Â", "Ã", "Ä", "Å", "Æ", "Ç", "È", "É", "Ê", "Ë", "Ì", "Í",
      "Î", "Ï", "Ð", "Ñ", "Ò", "Ó", "Ô", "Õ", "Ö", "×", "Ø", "Ù", "Ú", "Û",
      "Ü", "Ý", "Þ", "ß", "à", "á", "â", "ã", "ä", "å", "æ", "ç", "è", "é",
      "ê", "ë", "ì", "í", "î", "ï", "ð", "ñ", "ò", "ó", "ô", "õ", "ö", "÷",
      "ø", "ù", "ú", "û", "ü", "ý", "þ", "ÿ", "<U+0100>", "<U+0101>",
      "<U+0102>", "<U+0103>", "<U+0104>", "<U+0105>", "<U+0106>", "<U+0107>",
      "<U+0108>", "<U+0109>", "<U+010A>", "<U+010B>", "<U+010C>", "<U+010D>",
      "<U+010E>", "<U+010F>", "<U+0110>", "<U+0111>", "<U+0112>", "<U+0113>",
      "<U+0114>", "<U+0115>", "<U+0116>", "<U+0117>", "<U+0118>", "<U+0119>",
      "<U+011A>", "<U+011B>", "<U+011C>", "<U+011D>", "<U+011E>", "<U+011F>",
      "<U+0120>", "<U+0121>", "<U+0122>", "<U+0123>", "<U+0124>", "<U+0125>",
      "<U+0126>", "<U+0127>", "<U+0128>", "<U+0129>", "<U+012A>", "<U+012B>",
      "<U+012C>", "<U+012D>", "<U+012E>", "<U+012F>", "<U+0130>", "<U+0131>",
      "<U+0132>", "<U+0133>", "<U+0134>", "<U+0135>", "<U+0136>", "<U+0137>",
      "<U+0138>", "<U+0139>", "<U+013A>", "<U+013B>", "<U+013C>", "<U+013D>",
      "<U+013E>", "<U+013F>", "<U+0140>", "<U+0141>", "<U+0142>", "<U+0143>",
      "<U+0144>", "<U+0145>", "<U+0146>", "<U+0147>", "<U+0148>", "<U+0149>",
      "<U+014A>", "<U+014B>", "<U+014C>", "<U+014D>", "<U+014E>", "<U+014F>",
      "<U+0150>", "<U+0151>", "<U+0152>", "<U+0153>", "<U+0154>", "<U+0155>",
      "<U+0156>", "<U+0157>", "<U+0158>", "<U+0159>", "<U+015A>", "<U+015B>",
      "<U+015C>", "<U+015D>", "<U+015E>", "<U+015F>", "<U+0160>", "<U+0161>",
      "<U+0162>", "<U+0163>", "<U+0164>", "<U+0165>", "<U+0166>", "<U+0167>",
      "<U+0168>", "<U+0169>", "<U+016A>", "<U+016B>", "<U+016C>", "<U+016D>",
      "<U+016E>", "<U+016F>", "<U+0170>", "<U+0171>", "<U+0172>", "<U+0173>",
      "<U+0174>", "<U+0175>", "<U+0176>", "<U+0177>", "<U+0178>", "<U+0179>",
      "<U+017A>", "<U+017B>", "<U+017C>", "<U+017D>", "<U+017E>", "<U+017F>",
      "<U+0180>", "<U+0181>", "<U+0182>", "<U+0183>", "<U+0184>", "<U+0185>",
      "<U+0186>", "<U+0187>", "<U+0188>", "<U+0189>", "<U+018A>", "<U+018B>",
      "<U+018C>", "<U+018D>", "<U+018E>", "<U+018F>", "<U+0190>", "<U+0191>",
      "<U+0192>", "<U+0193>", "<U+0194>", "<U+0195>", "<U+0196>", "<U+0197>",
      "<U+0198>", "<U+0199>", "<U+019A>", "<U+019B>", "<U+019C>", "<U+019D>",
      "<U+019E>", "<U+019F>", "<U+01A0>", "<U+01A1>", "<U+01A2>", "<U+01A3>",
      "<U+01A4>", "<U+01A5>", "<U+01A6>", "<U+01A7>", "<U+01A8>", "<U+01A9>",
      "<U+01AA>", "<U+01AB>", "<U+01AC>", "<U+01AD>", "<U+01AE>", "<U+01AF>",
      "<U+01B0>", "<U+01B1>", "<U+01B2>", "<U+01B3>", "<U+01B4>", "<U+01B5>",
      "<U+01B6>", "<U+01B7>", "<U+01B8>", "<U+01B9>", "<U+01BA>", "<U+01BB>",
      "<U+01BC>", "<U+01BD>", "<U+01BE>", "<U+01BF>", "<U+01C0>", "<U+01C1>",
      "<U+01C2>", "<U+01C3>", "<U+01C4>", "<U+01C5>", "<U+01C6>", "<U+01C7>",
      "<U+01C8>", "<U+01C9>", "<U+01CA>", "<U+01CB>", "<U+01CC>", "<U+01CD>",
      "<U+01CE>", "<U+01CF>", "<U+01D0>", "<U+01D1>", "<U+01D2>", "<U+01D3>",
      "<U+01D4>", "<U+01D5>", "<U+01D6>", "<U+01D7>", "<U+01D8>", "<U+01D9>",
      "<U+01DA>", "<U+01DB>", "<U+01DC>", "<U+01DD>", "<U+01DE>", "<U+01DF>",
      "<U+01E0>", "<U+01E1>", "<U+01E2>", "<U+01E3>", "<U+01E4>", "<U+01E5>",
      "<U+01E6>", "<U+01E7>", "<U+01E8>", "<U+01E9>", "<U+01EA>", "<U+01EB>",
      "<U+01EC>", "<U+01ED>", "<U+01EE>", "<U+01EF>", "<U+01F0>", "<U+01F1>",
      "<U+01F2>", "<U+01F3>", "<U+01F4>", "<U+01F5>", "<U+01F6>", "<U+01F7>",
      "<U+01F8>", "<U+01F9>", "<U+01FA>", "<U+01FB>", "<U+01FC>", "<U+01FD>",
      "<U+01FE>", "<U+01FF>", "<U+0200>", "<U+0201>", "<U+0202>", "<U+0203>",
      "<U+0204>", "<U+0205>", "<U+0206>", "<U+0207>", "<U+0208>", "<U+0209>",
      "<U+020A>", "<U+020B>", "<U+020C>", "<U+020D>", "<U+020E>", "<U+020F>",
      "<U+0210>", "<U+0211>", "<U+0212>", "<U+0213>", "<U+0214>", "<U+0215>",
      "<U+0216>", "<U+0217>", "<U+0218>", "<U+0219>", "<U+021A>", "<U+021B>",
      "<U+021C>", "<U+021D>", "<U+021E>", "<U+021F>", "<U+0220>", "<U+0221>",
      "<U+0222>", "<U+0223>", "<U+0224>", "<U+0225>", "<U+0226>", "<U+0227>",
      "<U+0228>", "<U+0229>", "<U+022A>", "<U+022B>", "<U+022C>", "<U+022D>",
      "<U+022E>", "<U+022F>", "<U+0230>", "<U+0231>", "<U+0232>", "<U+0233>",
      "<U+0234>", "<U+0235>", "<U+0236>", "<U+0237>", "<U+0238>", "<U+0239>",
      "<U+023A>", "<U+023B>", "<U+023C>", "<U+023D>", "<U+023E>", "<U+023F>",
      "<U+0240>", "<U+0241>", "<U+0242>", "<U+0243>", "<U+0244>", "<U+0245>",
      "<U+0246>", "<U+0247>", "<U+0248>", "<U+0249>", "<U+024A>", "<U+024B>",
      "<U+024C>", "<U+024D>", "<U+024E>", "<U+024F>">>

\* the characters above U+024F that str.isspace() accepts, with ord() of each
SpacesBeyond ==
    <<<<"<U+1680>", 5760>>, <<"<U+2000>", 8192>>, <<"<U+2001>", 8193>>,
      <<"<U+2002>", 8194>>, <<"<U+2003>", 8195>>, <<"<U+2004>", 8196>>,
      <<"<U+2005>", 8197>>, <<"<U+2006>", 8198>>, <<"<U+2007>", 8199>>,
      <<"<U+2008>", 8200>>, <<"<U+2009>", 8201>>, <<"<U+200A>", 8202>>,
      <<"<U+2028>", 8232>>, <<"<U+2029>", 8233>>, <<"<U+202F>", 8239>>,
      <<"<U+205F>", 8287>>, <<"<U+3000>", 12288>>>>

\* str.isspace(): the characters str.strip() removes and \s matches
Whitespace ==
    {"\t", "\n", "<U+000B>", "\f", "\r", "<U+001C>", "<U+001D>", "<U+001E>",
     "<U+001F>", " ", "<U+0085>", "<U+00A0>", "<U+1680>", "<U+2000>",
     "<U+2001>", "<U+2002>", "<U+2003>", "<U+2004>", "<U+2005>", "<U+2006>",
     "<U+2007>", "<U+2008>", "<U+2009>", "<U+200A>", "<U+2028>", "<U+2029>",
     "<U+202F>", "<U+205F>", "<U+3000>"}

\* str.lower() of one character, for each character it changes
LowerPairs ==
    <<<<"A", <<"a">>>>, <<"B", <<"b">>>>, <<"C", <<"c">>>>, <<"D", <<"d">>>>,
      <<"E", <<"e">>>>, <<"F", <<"f">>>>, <<"G", <<"g">>>>, <<"H", <<"h">>>>,
      <<"I", <<"i">>>>, <<"J", <<"j">>>>, <<"K", <<"k">>>>, <<"L", <<"l">>>>,
      <<"M", <<"m">>>>, <<"N", <<"n">>>>, <<"O", <<"o">>>>, <<"P", <<"p">>>>,
      <<"Q", <<"q">>>>, <<"R", <<"r">>>>, <<"S", <<"s">>>>, <<"T", <<"t">>>>,
      <<"U", <<"u">>>>, <<"V", <<"v">>>>, <<"W", <<"w">>>>, <<"X", <<"x">>>>,
      <<"Y", <<"y">>>>, <<"Z", <<"z">>>>, <<"À", <<"à">>>>, <<"Á", <<"á">>>>,
      <<"Â", <<"â">>>>, <<"Ã", <<"ã">>>>, <<"Ä", <<"ä">>>>, <<"Å", <<"å">>>>,
      <<"Æ", <<"æ">>>>, <<"Ç", <<"ç">>>>, <<"È", <<"è">>>>, <<"É", <<"é">>>>,
      <<"Ê", <<"ê">>>>, <<"Ë", <<"ë">>>>, <<"Ì", <<"ì">>>>, <<"Í", <<"í">>>>,
      <<"Î", <<"î">>>>, <<"Ï", <<"ï">>>>, <<"Ð", <<"ð">>>>, <<"Ñ", <<"ñ">>>>,
      <<"Ò", <<"ò">>>>, <<"Ó", <<"ó">>>>, <<"Ô", <<"ô">>>>, <<"Õ", <<"õ">>>>,
      <<"Ö", <<"ö">>>>, <<"Ø", <<"ø">>>>, <<"Ù", <<"ù">>>>, <<"Ú", <<"ú">>>>,
      <<"Û", <<"û">>>>, <<"Ü", <<"ü">>>>, <<"Ý", <<"ý">>>>, <<"Þ", <<"þ">>>>,
      <<"<U+0100>", <<"<U+0101>">>>>, <<"<U+0102>", <<"<U+0103>">>>>,
      <<"<U+0104>", <<"<U+0105>">>>>, <<"<U+0106>", <<"<U+0107>">>>>,
      <<"<U+0108>", <<"<U+0109>">>>>, <<"<U+010A>", <<"<U+010B>">>>>,
      <<"<U+010C>", <<"<U+010D>">>>>, <<"<U+010E>", <<"<U+010F>">>>>,
      <<"<U+0110>", <<"<U+0111>">>>>, <<"<U+0112>", <<"<U+0113>">>>>,
      <<"<U+0114>", <<"<U+0115>">>>>, <<"<U+0116>", <<"<U+0117>">>>>,
      <<"<U+0118>", <<"<U+0119>">>>>, <<"<U+011A>", <<"<U+011B>">>>>,
      <<"<U+011C>", <<"<U+011D>">>>>, <<"<U+011E>", <<"<U+011F>">>>>,
      <<"<U+0120>", <<"<U+0121>">>>>, <<"<U+0122>", <<"<U+0123>">>>>,
      <<"<U+0124>", <<"<U+0125>">>>>, <<"<U+0126>", <<"<U+0127>">>>>,
      <<"<U+0128>", <<"<U+0129>">>>>, <<"<U+012A>", <<"<U+012B>">>>>,
      <<"<U+012C>", <<"<U+012D>">>>>, <<"<U+012E>", <<"<U+012F>">>>>,
      <<"<U+0130>", <<"i", "<U+0307>">>>>, <<"<U+0132>", <<"<U+0133>">>>>,
      <<"<U+0134>", <<"<U+0135>">>>>, <<"<U+0136>", <<"<U+0137>">>>>,
      <<"<U+0139>", <<"<U+013A>">>>>, <<"<U+013B>", <<"<U+013C>">>>>,
      <<"<U+013D>", <<"<U+013E>">>>>, <<"<U+013F>", <<"<U+0140>">>>>,
      <<"<U+0141>", <<"<U+0142>">>>>, <<"<U+0143>", <<"<U+0144>">>>>,
      <<"<U+0145>", <<"<U+0146>">>>>, <<"<U+0147>", <<"<U+0148>">>>>,
      <<"<U+014A>", <<"<U+014B>">>>>, <<"<U+014C>", <<"<U+014D>">>>>,
      <<"<U+014E>", <<"<U+014F>">>>>, <<"<U+0150>", <<"<U+0151>">>>>,
      <<"<U+0152>", <<"<U+0153>">>>>, <<"<U+0154>", <<"<U+0155>">>>>,
      <<"<U+0156>", <<"<U+0157>">>>>, <<"<U+0158>", <<"<U+0159>">>>>,
      <<"<U+015A>", <<"<U+015B>">>>>, <<"<U+015C>", <<"<U+015D>">>>>,
      <<"<U+015E>", <<"<U+015F>">>>>, <<"<U+0160>", <<"<U+0161>">>>>,
      <<"<U+0162>", <<"<U+0163>">>>>, <<"<U+0164>", <<"<U+0165>">>>>,
      <<"<U+0166>", <<"<U+0167>">>>>, <<"<U+0168>", <<"<U+0169>">>>>,
      <<"<U+016A>", <<"<U+016B>">>>>, <<"<U+016C>", <<"<U+016D>">>>>,
      <<"<U+016E>", <<"<U+016F>">>>>, <<"<U+0170>", <<"<U+0171>">>>>,
      <<"<U+0172>", <<"<U+0173>">>>>, <<"<U+0174>", <<"<U+0175>">>>>,
      <<"<U+0176>", <<"<U+0177>">>>>, <<"<U+0178>", <<"ÿ">>>>,
      <<"<U+0179>", <<"<U+017A>">>>>, <<"<U+017B>", <<"<U+017C>">>>>,
      <<"<U+017D>", <<"<U+017E>">>>>, <<"<U+0181>", <<"<U+0253>">>>>,
      <<"<U+0182>", <<"<U+0183>">>>>, <<"<U+0184>", <<"<U+0185>">>>>,
      <<"<U+0186>", <<"<U+0254>">>>>, <<"<U+0187>", <<"<U+0188>">>>>,
      <<"<U+0189>", <<"<U+0256>">>>>, <<"<U+018A>", <<"<U+0257>">>>>,
      <<"<U+018B>", <<"<U+018C>">>>>, <<"<U+018E>", <<"<U+01DD>">>>>,
      <<"<U+018F>", <<"<U+0259>">>>>, <<"<U+0190>", <<"<U+025B>">>>>,
      <<"<U+0191>", <<"<U+0192>">>>>, <<"<U+0193>", <<"<U+0260>">>>>,
      <<"<U+0194>", <<"<U+0263>">>>>, <<"<U+0196>", <<"<U+0269>">>>>,
      <<"<U+0197>", <<"<U+0268>">>>>, <<"<U+0198>", <<"<U+0199>">>>>,
      <<"<U+019C>", <<"<U+026F>">>>>, <<"<U+019D>", <<"<U+0272>">>>>,
      <<"<U+019F>", <<"<U+0275>">>>>, <<"<U+01A0>", <<"<U+01A1>">>>>,
      <<"<U+01A2>", <<"<U+01A3>">>>>, <<"<U+01A4>", <<"<U+01A5>">>>>,
      <<"<U+01A6>", <<"<U+0280>">>>>, <<"<U+01A7>", <<"<U+01A8>">>>>,
      <<"<U+01A9>", <<"<U+0283>">>>>, <<"<U+01AC>", <<"<U+01AD>">>>>,
      <<"<U+01AE>", <<"<U+0288>">>>>, <<"<U+01AF>", <<"<U+01B0>">>>>,
      <<"<U+01B1>", <<"<U+028A>">>>>, <<"<U+01B2>", <<"<U+028B>">>>>,
      <<"<U+01B3>", <<"<U+01B4>">>>>, <<"<U+01B5>", <<"<U+01B6>">>>>,
      <<"<U+01B7>", <<"<U+0292>">>>>, <<"<U+01B8>", <<"<U+01B9>">>>>,
      <<"<U+01BC>", <<"<U+01BD>">>>>, <<"<U+01C4>", <<"<U+01C6>">>>>,
      <<"<U+01C5>", <<"<U+01C6>">>>>, <<"<U+01C7>", <<"<U+01C9>">>>>,
      <<"<U+01C8>", <<"<U+01C9>">>>>, <<"<U+01CA>", <<"<U+01CC>">>>>,
      <<"<U+01CB>", <<"<U+01CC>">>>>, <<"<U+01CD>", <<"<U+01CE>">>>>,
      <<"<U+01CF>", <<"<U+01D0>">>>>, <<"<U+01D1>", <<"<U+01D2>">>>>,
      <<"<U+01D3>", <<"<U+01D4>">>>>, <<"<U+01D5>", <<"<U+01D6>">>>>,
      <<"<U+01D7>", <<"<U+01D8>">>>>, <<"<U+01D9>", <<"<U+01DA>">>>>,
      <<"<U+01DB>", <<"<U+01DC>">>>>, <<"<U+01DE>", <<"<U+01DF>">>>>,
      <<"<U+01E0>", <<"<U+01E1>">>>>, <<"<U+01E2>", <<"<U+01E3>">>>>,
      <<"<U+01E4>", <<"<U+01E5>">>>>, <<"<U+01E6>", <<"<U+01E7>">>>>,
      <<"<U+01E8>", <<"<U+01E9>">>>>, <<"<U+01EA>", <<"<U+01EB>">>>>,
      <<"<U+01EC>", <<"<U+01ED>">>>>, <<"<U+01EE>", <<"<U+01EF>">>>>,
      <<"<U+01F1>", <<"<U+01F3>">>>>, <<"<U+01F2>", <<"<U+01F3>">>>>,
      <<"<U+01F4>", <<"<U+01F5>">>>>, <<"<U+01F6>", <<"<U+0195>">>>>,
      <<"<U+01F7>", <<"<U+01BF>">>>>, <<"<U+01F8>", <<"<U+01F9>">>>>,
      <<"<U+01FA>", <<"<U+01FB>">>>>, <<"<U+01FC>", <<"<U+01FD>">>>>,
      <<"<U+01FE>", <<"<U+01FF>">>>>, <<"<U+0200>", <<"<U+0201>">>>>,
      <<"<U+0202>", <<"<U+0203>">>>>, <<"<U+0204>", <<"<U+0205>">>>>,
      <<"<U+0206>", <<"<U+0207>">>>>, <<"<U+0208>", <<"<U+0209>">>>>,
      <<"<U+020A>", <<"<U+020B>">>>>, <<"<U+020C>", <<"<U+020D>">>>>,
      <<"<U+020E>", <<"<U+020F>">>>>, <<"<U+0210>", <<"<U+0211>">>>>,
      <<"<U+0212>", <<"<U+0213>">>>>, <<"<U+0214>", <<"<U+0215>">>>>,
      <<"<U+0216>", <<"<U+0217>">>>>, <<"<U+0218>", <<"<U+0219>">>>>,
      <<"<U+021A>", <<"<U+021B>">>>>, <<"<U+021C>", <<"<U+021D>">>>>,
      <<"<U+021E>", <<"<U+021F>">>>>, <<"<U+0220>", <<"<U+019E>">>>>,
      <<"<U+0222>", <<"<U+0223>">>>>, <<"<U+0224>", <<"<U+0225>">>>>,
      <<"<U+0226>", <<"<U+0227>">>>>, <<"<U+0228>", <<"<U+0229>">>>>,
      <<"<U+022A>", <<"<U+022B>">>>>, <<"<U+022C>", <<"<U+022D>">>>>,
      <<"<U+022E>", <<"<U+022F>">>>>, <<"<U+0230>", <<"<U+0231>">>>>,
      <<"<U+0232>", <<"<U+0233>">>>>, <<"<U+023A>", <<"<U+2C65>">>>>,
      <<"<U+023B>", <<"<U+023C>">>>>, <<"<U+023D>", <<"<U+019A>">>>>,
      <<"<U+023E>", <<"<U+2C66>">>>>, <<"<U+0241>", <<"<U+0242>">>>>,
      <<"<U+0243>", <<"<U+0180>">>>>, <<"<U+0244>", <<"<U+0289>">>>>,
      <<"<U+0245>", <<"<U+028C>">>>>, <<"<U+0246>", <<"<U+0247>">>>>,
      <<"<U+0248>", <<"<U+0249>">>>>, <<"<U+024A>", <<"<U+024B>">>>>,
      <<"<U+024C>", <<"<U+024D>">>>>, <<"<U+024E>", <<"<U+024F>">>>>>>

\* the title-case form of one character, which str.capitalize() gives the
\* first character, for each character it changes
TitlePairs ==
    <<<<"a", <<"A">>>>, <<"b", <<"B">>>>, <<"c", <<"C">>>>, <<"d", <<"D">>>>,
      <<"e", <<"E">>>>, <<"f", <<"F">>>>, <<"g", <<"G">>>>, <<"h", <<"H">>>>,
      <<"i", <<"I">>>>, <<"j", <<"J">>>>, <<"k", <<"K">>>>, <<"l", <<"L">>>>,
      <<"m", <<"M">>>>, <<"n", <<"N">>>>, <<"o", <<"O">>>>, <<"p", <<"P">>>>,
      <<"q", <<"Q">>>>, <<"r", <<"R">>>>, <<"s", <<"S">>>>, <<"t", <<"T">>>>,
      <<"u", <<"U">>>>, <<"v", <<"V">>>>, <<"w", <<"W">>>>, <<"x", <<"X">>>>,
      <<"y", <<"Y">>>>, <<"z", <<"Z">>>>, <<"µ", <<"<U+039C>">>>>,
      <<"ß", <<"S", "s">>>>, <<"à", <<"À">>>>, <<"á", <<"Á">>>>,
      <<"â", <<"Â">>>>, <<"ã", <<"Ã">>>>, <<"ä", <<"Ä">>>>, <<"å", <<"Å">>>>,
      <<"æ", <<"Æ">>>>, <<"ç", <<"Ç">>>>, <<"è", <<"È">>>>, <<"é", <<"É">>>>,
      <<"ê", <<"Ê">>>>, <<"ë", <<"Ë">>>>, <<"ì", <<"Ì">>>>, <<"í", <<"Í">>>>,
      <<"î", <<"Î">>>>, <<"ï", <<"Ï">>>>, <<"ð", <<"Ð">>>>, <<"ñ", <<"Ñ">>>>,
      <<"ò", <<"Ò">>>>, <<"ó", <<"Ó">>>>, <<"ô", <<"Ô">>>>, <<"õ", <<"Õ">>>>,
      <<"ö", <<"Ö">>>>, <<"ø", <<"Ø">>>>, <<"ù", <<"Ù">>>>, <<"ú", <<"Ú">>>>,
      <<"û", <<"Û">>>>, <<"ü", <<"Ü">>>>, <<"ý", <<"Ý">>>>, <<"þ", <<"Þ">>>>,
      <<"ÿ", <<"<U+0178>">>>>, <<"<U+0101>", <<"<U+0100>">>>>,
      <<"<U+0103>", <<"<U+0102>">>>>, <<"<U+0105>", <<"<U+0104>">>>>,
      <<"<U+0107>", <<"<U+0106>">>>>, <<"<U+0109>", <<"<U+0108>">>>>,
      <<"<U+010B>", <<"<U+010A>">>>>, <<"<U+010D>", <<"<U+010C>">>>>,
      <<"<U+010F>", <<"<U+010E>">>>>, <<"<U+0111>", <<"<U+0110>">>>>,
      <<"<U+0113>", <<"<U+0112>">>>>, <<"<U+0115>", <<"<U+0114>">>>>,
      <<"<U+0117>", <<"<U+0116>">>>>, <<"<U+0119>", <<"<U+0118>">>>>,
      <<"<U+011B>", <<"<U+011A>">>>>, <<"<U+011D>", <<"<U+011C>">>>>,
      <<"<U+011F>", <<"<U+011E>">>>>, <<"<U+0121>", <<"<U+0120>">>>>,
      <<"<U+0123>", <<"<U+0122>">>>>, <<"<U+0125>", <<"<U+0124>">>>>,
      <<"<U+0127>", <<"<U+0126>">>>>, <<"<U+0129>", <<"<U+0128>">>>>,
      <<"<U+012B>", <<"<U+012A>">>>>, <<"<U+012D>", <<"<U+012C>">>>>,
      <<"<U+012F>", <<"<U+012E>">>>>, <<"<U+0131>", <<"I">>>>,
      <<"<U+0133>", <<"<U+0132>">>>>, <<"<U+0135>", <<"<U+0134>">>>>,
      <<"<U+0137>", <<"<U+0136>">>>>, <<"<U+013A>", <<"<U+0139>">>>>,
      <<"<U+013C>", <<"<U+013B>">>>>, <<"<U+013E>", <<"<U+013D>">>>>,
      <<"<U+0140>", <<"<U+013F>">>>>, <<"<U+0142>", <<"<U+0141>">>>>,
      <<"<U+0144>", <<"<U+0143>">>>>, <<"<U+0146>", <<"<U+0145>">>>>,
      <<"<U+0148>", <<"<U+0147>">>>>, <<"<U+0149>", <<"<U+02BC>", "N">>>>,
      <<"<U+014B>", <<"<U+014A>">>>>, <<"<U+014D>", <<"<U+014C>">>>>,
      <<"<U+014F>", <<"<U+014E>">>>>, <<"<U+0151>", <<"<U+0150>">>>>,
      <<"<U+0153>", <<"<U+0152>">>>>, <<"<U+0155>", <<"<U+0154>">>>>,
      <<"<U+0157>", <<"<U+0156>">>>>, <<"<U+0159>", <<"<U+0158>">>>>,
      <<"<U+015B>", <<"<U+015A>">>>>, <<"<U+015D>", <<"<U+015C>">>>>,
      <<"<U+015F>", <<"<U+015E>">>>>, <<"<U+0161>", <<"<U+0160>">>>>,
      <<"<U+0163>", <<"<U+0162>">>>>, <<"<U+0165>", <<"<U+0164>">>>>,
      <<"<U+0167>", <<"<U+0166>">>>>, <<"<U+0169>", <<"<U+0168>">>>>,
      <<"<U+016B>", <<"<U+016A>">>>>, <<"<U+016D>", <<"<U+016C>">>>>,
      <<"<U+016F>", <<"<U+016E>">>>>, <<"<U+0171>", <<"<U+0170>">>>>,
      <<"<U+0173>", <<"<U+0172>">>>>, <<"<U+0175>", <<"<U+0174>">>>>,
      <<"<U+0177>", <<"<U+0176>">>>>, <<"<U+017A>", <<"<U+0179>">>>>,
      <<"<U+017C>", <<"<U+017B>">>>>, <<"<U+017E>", <<"<U+017D>">>>>,
      <<"<U+017F>", <<"S">>>>, <<"<U+0180>", <<"<U+0243>">>>>,
      <<"<U+0183>", <<"<U+0182>">>>>, <<"<U+0185>", <<"<U+0184>">>>>,
      <<"<U+0188>", <<"<U+0187>">>>>, <<"<U+018C>", <<"<U+018B>">>>>,
      <<"<U+0192>", <<"<U+0191>">>>>, <<"<U+0195>", <<"<U+01F6>">>>>,
      <<"<U+0199>", <<"<U+0198>">>>>, <<"<U+019A>", <<"<U+023D>">>>>,
      <<"<U+019E>", <<"<U+0220>">>>>, <<"<U+01A1>", <<"<U+01A0>">>>>,
      <<"<U+01A3>", <<"<U+01A2>">>>>, <<"<U+01A5>", <<"<U+01A4>">>>>,
      <<"<U+01A8>", <<"<U+01A7>">>>>, <<"<U+01AD>", <<"<U+01AC>">>>>,
      <<"<U+01B0>", <<"<U+01AF>">>>>, <<"<U+01B4>", <<"<U+01B3>">>>>,
      <<"<U+01B6>", <<"<U+01B5>">>>>, <<"<U+01B9>", <<"<U+01B8>">>>>,
      <<"<U+01BD>", <<"<U+01BC>">>>>, <<"<U+01BF>", <<"<U+01F7>">>>>,
      <<"<U+01C4>", <<"<U+01C5>">>>>, <<"<U+01C6>", <<"<U+01C5>">>>>,
      <<"<U+01C7>", <<"<U+01C8>">>>>, <<"<U+01C9>", <<"<U+01C8>">>>>,
      <<"<U+01CA>", <<"<U+01CB>">>>>, <<"<U+01CC>", <<"<U+01CB>">>>>,
      <<"<U+01CE>", <<"<U+01CD>">>>>, <<"<U+01D0>", <<"<U+01CF>">>>>,
      <<"<U+01D2>", <<"<U+01D1>">>>>, <<"<U+01D4>", <<"<U+01D3>">>>>,
      <<"<U+01D6>", <<"<U+01D5>">>>>, <<"<U+01D8>", <<"<U+01D7>">>>>,
      <<"<U+01DA>", <<"<U+01D9>">>>>, <<"<U+01DC>", <<"<U+01DB>">>>>,
      <<"<U+01DD>", <<"<U+018E>">>>>, <<"<U+01DF>", <<"<U+01DE>">>>>,
      <<"<U+01E1>", <<"<U+01E0>">>>>, <<"<U+01E3>", <<"<U+01E2>">>>>,
      <<"<U+01E5>", <<"<U+01E4>">>>>, <<"<U+01E7>", <<"<U+01E6>">>>>,
      <<"<U+01E9>", <<"<U+01E8>">>>>, <<"<U+01EB>", <<"<U+01EA>">>>>,
      <<"<U+01ED>", <<"<U+01EC>">>>>, <<"<U+01EF>", <<"<U+01EE>">>>>,
      <<"<U+01F0>", <<"J", "<U+030C>">>>>, <<"<U+01F1>", <<"<U+01F2>">>>>,
      <<"<U+01F3>", <<"<U+01F2>">>>>, <<"<U+01F5>", <<"<U+01F4>">>>>,
      <<"<U+01F9>", <<"<U+01F8>">>>>, <<"<U+01FB>", <<"<U+01FA>">>>>,
      <<"<U+01FD>", <<"<U+01FC>">>>>, <<"<U+01FF>", <<"<U+01FE>">>>>,
      <<"<U+0201>", <<"<U+0200>">>>>, <<"<U+0203>", <<"<U+0202>">>>>,
      <<"<U+0205>", <<"<U+0204>">>>>, <<"<U+0207>", <<"<U+0206>">>>>,
      <<"<U+0209>", <<"<U+0208>">>>>, <<"<U+020B>", <<"<U+020A>">>>>,
      <<"<U+020D>", <<"<U+020C>">>>>, <<"<U+020F>", <<"<U+020E>">>>>,
      <<"<U+0211>", <<"<U+0210>">>>>, <<"<U+0213>", <<"<U+0212>">>>>,
      <<"<U+0215>", <<"<U+0214>">>>>, <<"<U+0217>", <<"<U+0216>">>>>,
      <<"<U+0219>", <<"<U+0218>">>>>, <<"<U+021B>", <<"<U+021A>">>>>,
      <<"<U+021D>", <<"<U+021C>">>>>, <<"<U+021F>", <<"<U+021E>">>>>,
      <<"<U+0223>", <<"<U+0222>">>>>, <<"<U+0225>", <<"<U+0224>">>>>,
      <<"<U+0227>", <<"<U+0226>">>>>, <<"<U+0229>", <<"<U+0228>">>>>,
      <<"<U+022B>", <<"<U+022A>">>>>, <<"<U+022D>", <<"<U+022C>">>>>,
      <<"<U+022F>", <<"<U+022E>">>>>, <<"<U+0231>", <<"<U+0230>">>>>,
      <<"<U+0233>", <<"<U+0232>">>>>, <<"<U+023C>", <<"<U+023B>">>>>,
      <<"<U+023F>", <<"<U+2C7E>">>>>, <<"<U+0240>", <<"<U+2C7F>">>>>,
      <<"<U+0242>", <<"<U+0241>">>>>, <<"<U+0247>", <<"<U+0246>">>>>,
      <<"<U+0249>", <<"<U+0248>">>>>, <<"<U+024B>", <<"<U+024A>">>>>,
      <<"<U+024D>", <<"<U+024C>">>>>, <<"<U+024F>", <<"<U+024E>">>>>>>

\* the characters \w matches: str.isalnum() or '_'
WordChars ==
    {"0", "1", "2", "3", "4", "5", "6", "7", "8", "9", "A", "B", "C", "D",
     "E", "F", "G", "H", "I", "J", "K", "L", "M", "N", "O", "P", "Q", "R",
     "S", "T", "U", "V", "W", "X", "Y", "Z", "_", "a", "b", "c", "d", "e",
     "f", "g", "h", "i", "j", "k", "l", "m", "n", "o", "p", "q", "r", "s",
     "t", "u", "v", "w", "x", "y", "z", "ª", "²", "³", "µ", "¹", "º", "¼",
     "½", "¾", "À", "Á", "Â", "Ã", "Ä", "Å", "Æ", "Ç", "È", "É", "Ê", "Ë",
     "Ì", "Í", "Î", "Ï", "Ð", "Ñ", "Ò", "Ó", "Ô", "Õ", "Ö", "Ø", "Ù", "Ú",
     "Û", "Ü", "Ý", "Þ", "ß", "à", "á", "â", "ã", "ä", "å", "æ", "ç", "è",
     "é", "ê", "ë", "ì", "í", "î", "ï", "ð", "ñ", "ò", "ó", "ô", "õ", "ö",
     "ø", "ù", "ú", "û", "ü", "ý", "þ", "ÿ", "<U+0100>", "<U+0101>",
     "<U+0102>", "<U+0103>", "<U+0104>", "<U+0105>", "<U+0106>", "<U+0107>",
     "<U+0108>", "<U+0109>", "<U+010A>", "<U+010B>", "<U+010C>", "<U+010D>",
     "<U+010E>", "<U+010F>", "<U+0110>", "<U+0111>", "<U+0112>", "<U+0113>",
     "<U+0114>", "<U+0115>", "<U+0116>", "<U+0117>", "<U+0118>", "<U+0119>",
     "<U+011A>", "<U+011B>", "<U+011C>", "<U+011D>", "<U+011E>", "<U+011F>",
     "<U+0120>", "<U+0121>", "<U+0122>", "<U+0123>", "<U+0124>", "<U+0125>",
     "<U+0126>", "<U+0127>", "<U+0128>", "<U+0129>", "<U+012A>", "<U+012B>",
     "<U+012C>", "<U+012D>", "<U+012E>", "<U+012F>", "<U+0130>", "<U+0131>",
     "<U+0132>", "<U+0133>", "<U+0134>", "<U+0135>", "<U+0136>", "<U+0137>",
     "<U+0138>", "<U+0139>", "<U+013A>", "<U+013B>", "<U+013C>", "<U+013D>",
     "<U+013E>", "<U+013F>", "<U+0140>", "<U+0141>", "<U+0142>", "<U+0143>",
     "<U+0144>", "<U+0145>", "<U+0146>", "<U+0147>", "<U+0148>", "<U+0149>",
     "<U+014A>", "<U+014B>", "<U+014C>", "<U+014D>", "<U+014E>", "<U+014F>",
     "<U+0150>", "<U+0151>", "<U+0152>", "<U+0153>", "<U+0154>", "<U+0155>",
     "<U+0156>", "<U+0157>", "<U+0158>", "<U+0159>", "<U+015A>", "<U+015B>",
     "<U+015C>", "<U+015D>", "<U+015E>", "<U+015F>", "<U+0160>", "<U+0161>",
     "<U+0162>", "<U+0163>", "<U+0164>", "<U+0165>", "<U+0166>", "<U+0167>",
     "<U+0168>", "<U+0169>", "<U+016A>", "<U+016B>", "<U+016C>", "<U+016D>",
     "<U+016E>", "<U+016F>", "<U+0170>", "<U+0171>", "<U+0172>", "<U+0173>",
     "<U+0174>", "<U+0175>", "<U+0176>", "<U+0177>", "<U+0178>", "<U+0179>",
     "<U+017A>", "<U+017B>", "<U+017C>", "<U+017D>", "<U+017E>", "<U+017F>",
     "<U+0180>", "<U+0181>", "<U+0182>", "<U+0183>", "<U+0184>", "<U+0185>",
     "<U+0186>", "<U+0187>", "<U+0188>", "<U+0189>", "<U+018A>", "<U+018B>",
     "<U+018C>", "<U+018D>", "<U+018E>", "<U+018F>", "<U+0190>", "<U+0191>",
     "<U+0192>", "<U+0193>", "<U+0194>", "<U+0195>", "<U+0196>", "<U+0197>",
     "<U+0198>", "<U+0199>", "<U+019A>", "<U+019B>", "<U+019C>", "<U+019D>",
     "<U+019E>", "<U+019F>", "<U+01A0>", "<U+01A1>", "<U+01A2>", "<U+01A3>",
     "<U+01A4>", "<U+01A5>", "<U+01A6>", "<U+01A7>", "<U+01A8>", "<U+01A9>",
     "<U+01AA>", "<U+01AB>", "<U+01AC>", "<U+01AD>", "<U+01AE>", "<U+01AF>",
     "<U+01B0>", "<U+01B1>", "<U+01B2>", "<U+01B3>", "<U+01B4>", "<U+01B5>",
     "<U+01B6>", "<U+01B7>", "<U+01B8>", "<U+01B9>", "<U+01BA>", "<U+01BB>",
     "<U+01BC>", "<U+01BD>", "<U+01BE>", "<U+01BF>", "<U+01C0>", "<U+01C1>",
     "<U+01C2>", "<U+01C3>", "<U+01C4>", "<U+01C5>", "<U+01C6>", "<U+01C7>",
     "<U+01C8>", "<U+01C9>", "<U+01CA>", "<U+01CB>", "<U+01CC>", "<U+01CD>",
     "<U+01CE>", "<U+01CF>", "<U+01D0>", "<U+01D1>", "<U+01D2>", "<U+01D3>",
     "<U+01D4>", "<U+01D5>", "<U+01D6>", "<U+01D7>", "<U+01D8>", "<U+01D9>",
     "<U+01DA>", "<U+01DB>", "<U+01DC>", "<U+01DD>", "<U+01DE>", "<U+01DF>",
     "<U+01E0>", "<U+01E1>", "<U+01E2>", "<U+01E3>", "<U+01E4>", "<U+01E5>",
     "<U+01E6>", "<U+01E7>", "<U+01E8>", "<U+01E9>", "<U+01EA>", "<U+01EB>",
     "<U+01EC>", "<U+01ED>", "<U+01EE>", "<U+01EF>", "<U+01F0>", "<U+01F1>",
     "<U+01F2>", "<U+01F3>", "<U+01F4>", "<U+01F5>", "<U+01F6>", "<U+01F7>",
     "<U+01F8>", "<U+01F9>", "<U+01FA>", "<U+01FB>", "<U+01FC>", "<U+01FD>",
     "<U+01FE>", "<U+01FF>", "<U+0200>", "<U+0201>", "<U+0202>", "<U+0203>",
     "<U+0204>", "<U+0205>", "<U+0206>", "<U+0207>", "<U+0208>", "<U+0209>",
     "<U+020A>", "<U+020B>", "<U+020C>", "<U+020D>", "<U+020E>", "<U+020F>",
     "<U+0210>", "<U+0211>", "<U+0212>", "<U+0213>", "<U+0214>", "<U+0215>",
     "<U+0216>", "<U+0217>", "<U+0218>", "<U+0219>", "<U+021A>", "<U+021B>",
     "<U+021C>", "<U+021D>", "<U+021E>", "<U+021F>", "<U+0220>", "<U+0221>",
     "<U+0222>", "<U+0223>", "<U+0224>", "<U+0225>", "<U+0226>", "<U+0227>",
     "<U+0228>", "<U+0229>", "<U+022A>", "<U+022B>", "<U+022C>", "<U+022D>",
     "<U+022E>", "<U+022F>", "<U+0230>", "<U+0231>", "<U+0232>", "<U+0233>",
     "<U+0234>", "<U+0235>", "<U+0236>", "<U+0237>", "<U+0238>", "<U+0239>",
     "<U+023A>", "<U+023B>", "<U+023C>", "<U+023D>", "<U+023E>", "<U+023F>",
     "<U+0240>", "<U+0241>", "<U+0242>", "<U+0243>", "<U+0244>", "<U+0245>",
     "<U+0246>", "<U+0247>", "<U+0248>", "<U+0249>", "<U+024A>", "<U+024B>",
     "<U+024C>", "<U+024D>", "<U+024E>", "<U+024F>"}

\* ord(c)
OrdOf ==
    [c \in {CodePoints[i] : i \in 1..Len(CodePoints)} |->
        (CHOOSE i \in 1..Len(CodePoints) : CodePoints[i] = c) - 1]
    @@ [c \in {SpacesBeyond[i][1] : i \in 1..Len(SpacesBeyond)} |->
        SpacesBeyond[CHOOSE i \in 1..Len(SpacesBeyond) : SpacesBeyond[i][1] = c][2]]

\* the characters of the model: U+0000..U+024F and the other Unicode spaces
Chars == DOMAIN OrdOf

LowerMap ==
    [c \in {LowerPairs[i][1] : i \in 1..Len(LowerPairs)} |->
        LowerPairs[CHOOSE i \in 1..Len(LowerPairs) : LowerPairs[i][1] = c][2]]

TitleMap ==
    [c \in {TitlePairs[i][1] : i \in 1..Len(TitlePairs)} |->
        TitlePairs[CHOOSE i \in 1..Len(TitlePairs) : TitlePairs[i][1] = c][2]]

\* c.lower(): one character or, for U+0130, two
LowerChar(c) == IF c \in DOMAIN LowerMap THEN LowerMap[c] ELSE <<c>>

\* c.title(): the cased form str.capitalize() gives the first character
TitleChar(c) == IF c \in DOMAIN TitleMap THEN TitleMap[c] ELSE <<c>>

\* ''.join(parts)
RECURSIVE str_join(_)
str_join(parts) ==
    IF parts = <<>> THEN <<>> ELSE Head(parts) \o str_join(Tail(parts))

\* str.lower()
str_lower(s) == str_join([i \in 1..Len(s) |-> LowerChar(s[i])])

\* str.strip()
str_strip(s) ==
    LET keep == {i \in 1..Len(s) : s[i] \notin Whitespace}
    IN  IF keep = {} THEN <<>>
        ELSE SubSeq(s, CHOOSE i \in keep : \A j \in keep : i <= j,
                       CHOOSE i \in keep : \A j \in keep : j <= i)

\* str.capitalize(): first character title-cased, the rest lower-cased
str_capitalize(s) ==
    IF s = <<>> THEN <<>> ELSE TitleChar(s[1]) \o str_lower(Tail(s))

\* str.split(','): the pieces between commas, empty pieces kept
RECURSIVE str_split(_)
str_split(s) ==
    IF \A i \in 1..Len(s) : s[i] # ","
    THEN <<s>>
    ELSE LET k == CHOOSE i \in 1..Len(s) :
                      s[i] = "," /\ \A j \in 1..(i-1) : s[j] # ","
         IN  <<SubSeq(s, 1, k-1)>> \o str_split(SubSeq(s, k+1, Len(s)))

\* Series.str.lower() on one cell: NaN stays NaN
cell_lower(c) == IF IsStr(c) THEN str_lower(c) ELSE NaN

(***************************************************************************)
(* Regular expressions, as Series.str.contains(pat) uses them: regex=True  *)
(* is the default, so pandas calls re.compile(pat) and keeps the cells in  *)
(* which regex.search finds a match.  Compiling follows the parser of the  *)
(* re module (the functions _parse_sub, _parse, _escape and _class_escape) *)
(* and gives a tree; searching computes, for a set of start positions, the *)
(* set of positions where a match of the tree can end.                     *)
(*                                                                         *)
(* The modelled syntax is: literals, '.', '^', '$', '|', groups '(...)'    *)
(* and '(?:...)', lookaheads '(?=...)' and '(?!...)', sets '[...]' with    *)
(* ranges and negation, the repeats '*', '+', '?', '{m}', '{m,n}' and      *)
(* their lazy forms, and the escapes \A \Z \b \B \d \D \s \S \w \W \a \f   *)
(* \n \r \t \v \xhh \uhhhh \Uhhhhhhhh, octal escapes and escaped           *)
(* punctuation.  A pattern that uses anything else the re module accepts   *)
(* (a back-reference, a named group, a look-behind, a conditional, an      *)
(* inline flag, an atomic group, a comment, a possessive repeat, \N{...},  *)
(* a repeat count of ten digits or more, a character outside Chars)        *)
(* compiles to the error Unmodelled, which the program never raises.       *)
(***************************************************************************)
Range(s) == {s[i] : i \in 1..Len(s)}

Unmodelled == "unmodelled"

\* source.next at index i of the pattern: "" is None, the end of the pattern
At(p, i) == IF i >= 1 /\ i <= Len(p) THEN p[i] ELSE ""

SPECIAL_CHARS == {".", "\\", "[", "{", "(", ")", "*", "+", "?", "^", "$", "|"}
REPEAT_CHARS == {"*", "+", "?", "{"}
DIGITS == {"0", "1", "2", "3", "4", "5", "6", "7", "8", "9"}
OCTDIGITS == {"0", "1", "2", "3", "4", "5", "6", "7"}
HexChars == <<"0", "1", "2", "3", "4", "5", "6", "7", "8", "9",
              "a", "b", "c", "d", "e", "f", "A", "B", "C", "D", "E", "F">>
HEXDIGITS == Range(HexChars)
ASCII_LETTERS ==
    {"a", "b", "c", "d", "e", "f", "g", "h", "i", "j", "k", "l", "m", "n",
     "o", "p", "q", "r", "s", "t", "u", "v", "w", "x", "y", "z", "A", "B",
     "C", "D", "E", "F", "G", "H", "I", "J", "K", "L", "M", "N", "O", "P",
     "Q", "R", "S", "T", "U", "V", "W", "X", "Y", "Z"}

\* the repeat count of '*' and '+' without an upper end
MAXREPEAT == 0 - 1

\* ord(c), or -1 for a character outside the model
Ord(c) == IF c \in Chars THEN OrdOf[c] ELSE 0 - 1

\* chr(n), or "" for a character outside the model
Chr(n) ==
    IF n < Len(CodePoints) THEN CodePoints[n + 1]
    ELSE IF \E c \in Chars : OrdOf[c] = n THEN CHOOSE c \in Chars : OrdOf[c] = n
    ELSE ""

\* the value of one digit in base 8, 10 or 16
HexValue(c) ==
    LET k == CHOOSE i \in 1..Len(HexChars) : HexChars[i] = c
    IN  IF k > 16 THEN k - 7 ELSE k - 1

\* int(p[i..j-1], base)
RECURSIVE IntOf(_, _, _, _)
IntOf(p, i, j, base) ==
    IF j <= i THEN 0 ELSE IntOf(p, i, j - 1, base) * base + HexValue(p[j - 1])

\* source.getwhile(n, charset) from index i: the index after the run
RunEnd(p, i, charset, n) ==
    CHOOSE j \in i..(i + n) :
        /\ \A k \in i..(j - 1) : At(p, k) \in charset
        /\ (j = i + n \/ At(p, j) \notin charset)

\* the nodes of a parsed pattern
Literal(c) == [t |-> "literal", c |-> c]
AnyChar == [t |-> "any"]
InSet(negate, items) == [t |-> "in", negate |-> negate, items |-> items]
AtCode(where) == [t |-> "at", where |-> where]
Sequence(xs) == [t |-> "sequence", xs |-> xs]
Branch(a, b) == [t |-> "branch", a |-> a, b |-> b]
Repeat(lo, hi, x) == [t |-> "repeat", lo |-> lo, hi |-> hi, x |-> x]
Subpattern(x) == [t |-> "subpattern", x |-> x]
Lookahead(negate, x) == [t |-> "lookahead", negate |-> negate, x |-> x]

\* the members of a set
SetLiteral(c) == [k |-> "literal", c |-> c]
SetRange(lo, hi) == [k |-> "range", lo |-> lo, hi |-> hi]
SetCategory(c) == [k |-> "category", c |-> c]

\* the result of a parsing step: the error raised ("" for none), the index
\* of the next character, the node parsed, the number of groups opened
Parsed(i, node, ng) == [err |-> "", i |-> i, node |-> node, ng |-> ng]
ParseError(msg) == [err |-> msg, i |-> 0, node |-> <<>>, ng |-> 0]

\* ESCAPES of the parser, without \b and \\
EscapeChars == <<"a", "f", "n", "r", "t", "v">>
EscapeCodes == <<7, 12, 10, 13, 9, 11>>
EscapeOf(c) == Chr(EscapeCodes[CHOOSE i \in 1..Len(EscapeChars) : EscapeChars[i] = c])

\* a literal with code n, when chr(n) is a character of the model
LiteralOfCode(n, i, ng) ==
    IF Chr(n) = "" THEN ParseError(Unmodelled) ELSE Parsed(i, Literal(Chr(n)), ng)

\* \xhh, \uhhhh and \Uhhhhhhhh, the backslash at index i
HexEscape(p, i, ng) ==
    LET n == IF p[i + 1] = "x" THEN 2 ELSE IF p[i + 1] = "u" THEN 4 ELSE 8
        j == RunEnd(p, i + 2, HEXDIGITS, n)
    IN  IF j # i + 2 + n THEN ParseError("incomplete escape")
        ELSE IF n = 8 /\ (p[i + 2] # "0" \/ p[i + 3] # "0"
                            \/ IntOf(p, i + 4, j, 16) > 1114111)
        THEN ParseError("bad escape")
        ELSE LiteralOfCode(IntOf(p, i + (IF n = 8 THEN 4 ELSE 2), j, 16), j, ng)

\* _escape: an escape outside a set, the backslash at index i; `open` is
\* the set of groups that are not closed yet
Escape(p, i, ng, open) ==
    LET c == At(p, i + 1)
        two == At(p, i + 2) \in DIGITS
        octal == two /\ c \in OCTDIGITS /\ At(p, i + 2) \in OCTDIGITS
                     /\ At(p, i + 3) \in OCTDIGITS
        group == IntOf(p, i + 1, IF two THEN i + 3 ELSE i + 2, 10)
    IN  IF c = "" THEN ParseError("bad escape (end of pattern)")
        ELSE IF c = "A" THEN Parsed(i + 2, AtCode("beginning_string"), ng)
        ELSE IF c = "Z" THEN Parsed(i + 2, AtCode("end_string"), ng)
        ELSE IF c = "b" THEN Parsed(i + 2, AtCode("boundary"), ng)
        ELSE IF c = "B" THEN Parsed(i + 2, AtCode("non_boundary"), ng)
        ELSE IF c \in {"d", "D", "s", "S", "w", "W"}
        THEN Parsed(i + 2, InSet(FALSE, <<SetCategory(c)>>), ng)
        ELSE IF c \in Range(EscapeChars) THEN Parsed(i + 2, Literal(EscapeOf(c)), ng)
        ELSE IF c = "\\" THEN Parsed(i + 2, Literal(c), ng)
        ELSE IF c \in {"x", "u", "U"} THEN HexEscape(p, i, ng)
        ELSE IF c = "N" THEN ParseError(Unmodelled)
        ELSE IF c = "0"
        THEN LET j == RunEnd(p, i + 2, OCTDIGITS, 2)
             IN  LiteralOfCode(IntOf(p, i + 1, j, 8), j, ng)
        ELSE IF c \in DIGITS
        THEN IF octal
             THEN IF IntOf(p, i + 1, i + 4, 8) > 255
                  THEN ParseError("octal escape value outside of range 0-0o377")
                  ELSE LiteralOfCode(IntOf(p, i + 1, i + 4, 8), i + 4, ng)
             ELSE IF group > ng THEN ParseError("invalid group reference")
             ELSE IF group \in open THEN ParseError("cannot refer to an open group")
             ELSE ParseError(Unmodelled)
        ELSE IF c \in ASCII_LETTERS THEN ParseError("bad escape")
        ELSE Parsed(i + 2, Literal(c), ng)

\* _class_escape: an escape inside a set, the backslash at index i; the
\* node of the result is a member of the set
ClassEscape(p, i) ==
    LET c == At(p, i + 1)
        asLiteral(r) == IF r.err # "" THEN r
                        ELSE Parsed(r.i, SetLiteral(r.node.c), 0)
    IN  IF c = "" THEN ParseError("bad escape (end of pattern)")
        ELSE IF c \in Range(EscapeChars) THEN Parsed(i + 2, SetLiteral(EscapeOf(c)), 0)
        ELSE IF c = "b" THEN Parsed(i + 2, SetLiteral(Chr(8)), 0)
        ELSE IF c = "\\" THEN Parsed(i + 2, SetLiteral(c), 0)
        ELSE IF c \in {"d", "D", "s", "S", "w", "W"}
        THEN Parsed(i + 2, SetCategory(c), 0)
        ELSE IF c \in {"x", "u", "U"} THEN asLiteral(HexEscape(p, i, 0))
        ELSE IF c = "N" THEN ParseError(Unmodelled)
        ELSE IF c \in OCTDIGITS
        THEN LET j == RunEnd(p, i + 2, OCTDIGITS, 2)
             IN  IF IntOf(p, i + 1, j, 8) > 255
                 THEN ParseError("octal escape value outside of range 0-0o377")
                 ELSE asLiteral(LiteralOfCode(IntOf(p, i + 1, j, 8), j, 0))
        ELSE IF c \in DIGITS \/ c \in ASCII_LETTERS THEN ParseError("bad escape")
        ELSE Parsed(i + 2, SetLiteral(c), 0)

\* the members of a set up to its closing ']', from index i
RECURSIVE ParseSet(_, _, _)
ParseSet(p, i, items) ==
    LET member(j) == IF At(p, j) = "\\" THEN ClassEscape(p, j)
                     ELSE Parsed(j + 1, SetLiteral(At(p, j)), 0)
        range(one, other) ==
            IF other.err # "" THEN other
            ELSE IF one.node.k # "literal" \/ other.node.k # "literal"
            THEN ParseError("bad character range")
            ELSE IF Ord(one.node.c) < 0 \/ Ord(other.node.c) < 0
            THEN ParseError(Unmodelled)
            ELSE IF Ord(other.node.c) < Ord(one.node.c)
            THEN ParseError("bad character range")
            ELSE ParseSet(p, other.i,
                          Append(items, SetRange(Ord(one.node.c), Ord(other.node.c))))
        after(one) ==
            IF one.err # "" THEN one
            ELSE IF At(p, one.i) # "-" THEN ParseSet(p, one.i, Append(items, one.node))
            ELSE IF At(p, one.i + 1) = ""
            THEN ParseError("unterminated character set")
            ELSE IF At(p, one.i + 1) = "]"
            THEN Parsed(one.i + 2, items \o <<one.node, SetLiteral("-")>>, 0)
            ELSE range(one, member(one.i + 1))
    IN  IF At(p, i) = "" THEN ParseError("unterminated character set")
        ELSE IF At(p, i) = "]" /\ items # <<>> THEN Parsed(i + 1, items, 0)
        ELSE after(member(i))

\* a set, the '[' at index i
CharacterSet(p, i, ng) ==
    LET negate == At(p, i + 1) = "^"
        set(r) == IF r.err # "" THEN r ELSE Parsed(r.i, InSet(negate, r.node), ng)
    IN  set(ParseSet(p, IF negate THEN i + 2 ELSE i + 1, <<>>))

\* the range of the repeat at index i: `literal` when a '{' is no repeat
RepeatRange(p, i) ==
    LET lo == RunEnd(p, i + 1, DIGITS, Len(p))
        comma == At(p, lo) = ","
        hi == IF comma THEN RunEnd(p, lo + 1, DIGITS, Len(p)) ELSE lo
        min == IF lo > i + 1 THEN IntOf(p, i + 1, lo, 10) ELSE 0
        max == IF comma
               THEN IF hi > lo + 1 THEN IntOf(p, lo + 1, hi, 10) ELSE MAXREPEAT
               ELSE IF lo > i + 1 THEN min ELSE MAXREPEAT
        range(a, b, j) == [err |-> "", literal |-> FALSE, lo |-> a, hi |-> b, i |-> j]
    IN  IF p[i] = "?" THEN range(0, 1, i + 1)
        ELSE IF p[i] = "*" THEN range(0, MAXREPEAT, i + 1)
        ELSE IF p[i] = "+" THEN range(1, MAXREPEAT, i + 1)
        ELSE IF At(p, i + 1) = "}" \/ At(p, hi) # "}"
        THEN [err |-> "", literal |-> TRUE, lo |-> 0, hi |-> 0, i |-> i + 1]
        ELSE IF lo - (i + 1) > 9 \/ hi - (lo + 1) > 9
        THEN [err |-> Unmodelled, literal |-> FALSE, lo |-> 0, hi |-> 0, i |-> 0]
        ELSE IF max # MAXREPEAT /\ max < min
        THEN [err |-> "min repeat greater than max repeat",
              literal |-> FALSE, lo |-> 0, hi |-> 0, i |-> 0]
        ELSE range(min, max, hi + 1)

RECURSIVE ParseSub(_, _, _, _)
RECURSIVE ParseItems(_, _, _, _, _)

\* the group extensions '(?P', '(?<', '(?#', '(?(', '(?>' and the inline flags
\* (the keys of FLAGS, and '-'), which the model leaves out
EXTENSIONS == {"P", "<", "#", "(", ">", "-", "L", "a", "i", "m", "s", "t", "u", "x"}

\* a group, the '(' at index i
Group(p, i, ng, open) ==
    LET extension == At(p, i + 1) = "?"
        kind == At(p, i + 2)
        group(body) ==
            IF body.err # "" THEN body
            ELSE IF At(p, body.i) # ")"
            THEN ParseError("missing ), unterminated subpattern")
            ELSE IF extension /\ kind # ":"
            THEN Parsed(body.i + 1, Lookahead(kind = "!", body.node), body.ng)
            ELSE Parsed(body.i + 1, Subpattern(body.node), body.ng)
    IN  IF extension /\ kind = "" THEN ParseError("unexpected end of pattern")
        ELSE IF extension /\ kind \in EXTENSIONS THEN ParseError(Unmodelled)
        ELSE IF extension /\ kind \notin {":", "=", "!"}
        THEN ParseError("unknown extension")
        ELSE IF extension THEN group(ParseSub(p, i + 3, ng, open))
        ELSE group(ParseSub(p, i + 1, ng + 1, open \cup {ng + 1}))

\* _parse: the items of one branch, up to '|', ')' or the end
ParseItems(p, i, items, ng, open) ==
    LET this == At(p, i)
        next(r) == IF r.err # "" THEN r
                   ELSE ParseItems(p, r.i, Append(items, r.node), r.ng, open)
        item == items[Len(items)]
        repeat(rep) ==
            IF rep.err # "" THEN ParseError(rep.err)
            ELSE IF rep.literal THEN next(Parsed(i + 1, Literal(this), ng))
            ELSE IF items = <<>> \/ item.t = "at" THEN ParseError("nothing to repeat")
            ELSE IF item.t = "repeat" THEN ParseError("multiple repeat")
            ELSE IF At(p, rep.i) = "+" THEN ParseError(Unmodelled)
            ELSE ParseItems(p, IF At(p, rep.i) = "?" THEN rep.i + 1 ELSE rep.i,
                            SubSeq(items, 1, Len(items) - 1)
                                \o <<Repeat(rep.lo, rep.hi, item)>>,
                            ng, open)
    IN  IF this \in {"", "|", ")"} THEN Parsed(i, Sequence(items), ng)
        ELSE IF this = "\\" THEN next(Escape(p, i, ng, open))
        ELSE IF this \notin SPECIAL_CHARS THEN next(Parsed(i + 1, Literal(this), ng))
        ELSE IF this = "[" THEN next(CharacterSet(p, i, ng))
        ELSE IF this = "." THEN next(Parsed(i + 1, AnyChar, ng))
        ELSE IF this = "(" THEN next(Group(p, i, ng, open))
        ELSE IF this = "^" THEN next(Parsed(i + 1, AtCode("beginning"), ng))
        ELSE IF this = "$" THEN next(Parsed(i + 1, AtCode("end"), ng))
        ELSE repeat(RepeatRange(p, i))

\* _parse_sub: the branches of a pattern or of a group
ParseSub(p, i, ng, open) ==
    LET branch(one, rest) ==
            IF rest.err # "" THEN rest
            ELSE Parsed(rest.i, Branch(one.node, rest.node), rest.ng)
        branches(one) ==
            IF one.err # "" \/ At(p, one.i) # "|" THEN one
            ELSE branch(one, ParseSub(p, one.i + 1, one.ng, open))
    IN  branches(ParseItems(p, i, <<>>, ng, open))

\* re.compile(pat): the tree of the pattern, or the error raised
re_compile(pat) ==
    LET whole(r) == IF r.err # "" THEN r
                    ELSE IF r.i <= Len(pat) THEN ParseError("unbalanced parenthesis")
                    ELSE r
    IN  whole(ParseSub(pat, 1, 0, {}))

\* re.compile(pat) returns a pattern
ReCompiles(pat) == re_compile(pat).err = ""

\* a character is in a category of the re module
InCategory(cat, c) ==
    IF cat = "d" THEN c \in DIGITS
    ELSE IF cat = "D" THEN c \notin DIGITS
    ELSE IF cat = "s" THEN c \in Whitespace
    ELSE IF cat = "S" THEN c \notin Whitespace
    ELSE IF cat = "w" THEN c \in WordChars
    ELSE c \notin WordChars

\* a character is matched by a set
SetMatches(x, c) ==
    LET hit(m) == IF m.k = "literal" THEN m.c = c
                  ELSE IF m.k = "range" THEN m.lo <= Ord(c) /\ Ord(c) <= m.hi
                  ELSE InCategory(m.c, c)
    IN  (\E j \in 1..Len(x.items) : hit(x.items[j])) # x.negate

\* an anchor holds at position k of s (k characters lie before it)
AtHolds(where, s, k) ==
    LET before == k > 0 /\ s[k] \in WordChars
        after == k < Len(s) /\ s[k + 1] \in WordChars
    IN  IF where \in {"beginning", "beginning_string"} THEN k = 0
        ELSE IF where = "end_string" THEN k = Len(s)
        ELSE IF where = "end"
        THEN k = Len(s) \/ (k = Len(s) - 1 /\ s[Len(s)] = "\n")
        ELSE IF where = "boundary" THEN Len(s) > 0 /\ before # after
        ELSE Len(s) > 0 /\ before = after

\* the positions where a match of x that starts at a position of `from` can
\* end
RECURSIVE Ends(_, _, _)
RECURSIVE EndsAll(_, _, _)
RECURSIVE EndsTimes(_, _, _, _)
RECURSIVE EndsUpTo(_, _, _, _, _)

Ends(x, s, from) ==
    LET step(ok(_)) == {k + 1 : k \in {j \in from : j < Len(s) /\ ok(s[j + 1])}}
        isLiteral(c) == c = x.c
        notNewline(c) == c # "\n"
        inSet(c) == SetMatches(x, c)
        least == EndsTimes(x.x, s, from,
                           IF x.lo > Len(s) + 1 THEN Len(s) + 1 ELSE x.lo)
        extra == IF x.hi = MAXREPEAT \/ x.hi - x.lo > Len(s) + 1
                 THEN Len(s) + 1 ELSE x.hi - x.lo
    IN  IF from = {} THEN {}
        ELSE IF x.t = "literal" THEN step(isLiteral)
        ELSE IF x.t = "any" THEN step(notNewline)
        ELSE IF x.t = "in" THEN step(inSet)
        ELSE IF x.t = "at" THEN {k \in from : AtHolds(x.where, s, k)}
        ELSE IF x.t = "sequence" THEN EndsAll(x.xs, s, from)
        ELSE IF x.t = "branch" THEN Ends(x.a, s, from) \cup Ends(x.b, s, from)
        ELSE IF x.t = "subpattern" THEN Ends(x.x, s, from)
        ELSE IF x.t = "lookahead"
        THEN {k \in from : (Ends(x.x, s, {k}) # {}) # x.negate}
        ELSE EndsUpTo(x.x, s, least, least, extra)

\* the items of a sequence one after the other
EndsAll(xs, s, from) ==
    IF xs = <<>> THEN from ELSE EndsAll(Tail(xs), s, Ends(Head(xs), s, from))

\* exactly n matches of x one after the other
EndsTimes(x, s, from, n) ==
    IF n = 0 THEN from ELSE EndsTimes(x, s, Ends(x, s, from), n - 1)

\* at most n further matches of x after the positions `seen`, the newest of
\* which are `last`
EndsUpTo(x, s, seen, last, n) ==
    LET new == Ends(x, s, last) \ seen
    IN  IF n = 0 \/ new = {} THEN seen
        ELSE EndsUpTo(x, s, seen \cup new, new, n - 1)

\* regex.search(s) is not None
ReSearch(regex, s) == Ends(regex, s, 0..Len(s)) # {}

\* one cell of Series.str.contains(pat): NaN for a missing cell, which the
\* boolean mask then treats as False
cell_contains(c, regex) == IsStr(c) /\ ReSearch(regex, c)

(***************************************************************************)
(* Number formatting: f"{x:.2f}" of x = (count / total) * 100, where the   *)
(* division and the multiplication are IEEE-754 double operations (each    *)
(* rounds its exact result to 53 significant bits, ties to even) and the   *)
(* formatter rounds the exact value of x to hundredths, ties to even.      *)
(* A natural number wider than the model's integers is a sequence of       *)
(* 15-bit limbs, least significant first; a double is [m, e] with value    *)
(* m * 2^e, m a 53-bit number.  count <= total < 2^30.                     *)
(***************************************************************************)
DigitChars == <<"0","1","2","3","4","5","6","7","8","9">>

RECURSIVE NatToStr(_)
NatToStr(n) ==
    IF n < 10 THEN <<DigitChars[n+1]>>
    ELSE NatToStr(n \div 10) \o <<DigitChars[(n % 10) + 1]>>

\* bits of the significand of a double
MantissaBits == 53

\* bits of a limb
LimbBits == 15

RECURSIVE Pow2(_)
Pow2(k) == IF k = 0 THEN 1 ELSE 2 * Pow2(k - 1)

LimbBase == Pow2(LimbBits)

Limb(a, j) == IF j >= 1 /\ j <= Len(a) THEN a[j] ELSE 0

\* bit i of a, bit 0 the least significant
Bit(a, i) == (Limb(a, (i \div LimbBits) + 1) \div Pow2(i % LimbBits)) % 2

\* a without its leading zero limbs
LimbsTrim(a) ==
    LET used == {j \in 1..Len(a) : a[j] # 0}
    IN  IF used = {} THEN <<>>
        ELSE SubSeq(a, 1, CHOOSE j \in used : \A i \in used : i <= j)

\* the number of bits of a
BitLen(a) ==
    LET t == LimbsTrim(a)
    IN  IF t = <<>> THEN 0
        ELSE (Len(t) - 1) * LimbBits
               + (CHOOSE n \in 1..LimbBits :
                      Pow2(n - 1) <= t[Len(t)] /\ t[Len(t)] < Pow2(n))

\* a * k + carry, for k and carry below 2^15
RECURSIVE LimbsTimes(_, _, _)
LimbsTimes(a, k, carry) ==
    IF a = <<>> THEN IF carry = 0 THEN <<>> ELSE <<carry>>
    ELSE LET v == Head(a) * k + carry
         IN  <<v % LimbBase>> \o LimbsTimes(Tail(a), k, v \div LimbBase)

\* a / 2^d rounded to an integer, ties to even; `sticky` says that the exact
\* value exceeds a by a fraction of its last bit
LimbsRoundShift(a, d, sticky) ==
    LET q == d \div LimbBits
        r == d % LimbBits
        n == IF Len(a) - q > 1 THEN Len(a) - q ELSE 1
        floor == [j \in 1..n |->
                    (Limb(a, j + q) \div Pow2(r))
                      + (Limb(a, j + q + 1) % Pow2(r)) * Pow2(LimbBits - r)]
        half == d > 0 /\ Bit(a, d - 1) = 1
        more == sticky \/ \E i \in 0..(d - 2) : Bit(a, i) = 1
        up == half /\ (more \/ floor[1] % 2 = 1)
    IN  LimbsTrim(IF up THEN LimbsTimes(floor, 1, 1) ELSE floor)

\* the double nearest to the number a * 2^e (plus a fraction of a's last bit
\* when `sticky`), for a of at least 54 bits
RoundToDouble(a, e, sticky) ==
    LET d == BitLen(a) - MantissaBits
        m == LimbsRoundShift(a, d, sticky)
    IN  IF BitLen(m) > MantissaBits
        THEN [m |-> LimbsRoundShift(m, 1, FALSE), e |-> e + d + 1]
        ELSE [m |-> m, e |-> e + d]

\* the next n bits of r / total after the binary point, as a number q, and
\* the remainder; r < total
RECURSIVE DivBits(_, _, _, _)
DivBits(r, total, n, q) ==
    IF n = 0 THEN [q |-> q, r |-> r]
    ELSE IF 2 * r >= total
         THEN DivBits(2 * r - total, total, n - 1, 2 * q + 1)
         ELSE DivBits(2 * r, total, n - 1, 2 * q)

\* the k with total <= count * 2^k < 2 * total
RECURSIVE LeadShift(_, _)
LeadShift(count, total) ==
    IF count >= total THEN 0 ELSE 1 + LeadShift(2 * count, total)

\* count / total (true division of two ints, correctly rounded), count <= total
FloatDiv(count, total) ==
    LET k == LeadShift(count, total)
        d1 == DivBits(count * Pow2(k) - total, total, LimbBits, 0)
        d2 == DivBits(d1.r, total, LimbBits, 0)
        d3 == DivBits(d2.r, total, LimbBits, 0)
        d4 == DivBits(d3.r, total, LimbBits, 0)
        \* the leading one and the next 60 bits of count * 2^k / total
    IN  RoundToDouble(<<d4.q, d3.q, d2.q, d1.q, 1>>,
                      0 - k - 4 * LimbBits, d4.r > 0)

\* x * 100
FloatTimes100(x) == RoundToDouble(LimbsTimes(x.m, 100, 0), x.e, FALSE)

\* the share without the `* 100`
FractionHundredths(count, total) == (count * 100) \div total

\* (count / total) * 100 in hundredths, as f"{x:.2f}" rounds it
PercentHundredths(count, total) ==
    LET x == FloatTimes100(FloatDiv(count, total))
        h == LimbsRoundShift(LimbsTimes(x.m, 100, 0), 0 - x.e, FALSE)
    IN  Limb(h, 1)

\* the text of f"{disease_percentage:.2f}"
FormatPercent(count, total) ==
    LET h == PercentHundredths(count, total)
    IN  NatToStr(h \div 100) \o <<".">>
          \o <<DigitChars[((h % 100) \div 10) + 1], DigitChars[(h % 10) + 1]>>

(***************************************************************************)
(* Outcome of a query: what the operation wrote with st.write.  `msg` is   *)
(* the message template of the source, `name` the text interpolated into   *)
(* it, `items` the lines that follow.  `kind` classifies the message.      *)
(* An exception leaving the operation is the outcome of kind "Error".      *)
(* The kind Unmodelled is no outcome of the program: it marks a query      *)
(* whose pattern lies outside the modelled regular-expression syntax.      *)
(***************************************************************************)
Outcome(kind, msg, name, items) ==
    [kind |-> kind, msg |-> msg, name |-> name, items |-> items]

NoOutcome == Outcome("None", "", <<>>, <<>>)

Raised(exc) == Outcome("Error", exc, <<>>, <<>>)

\* dtype of a column read by read_csv: object (text) when the table has no
\* rows or some cell is text; an all-missing column is float64, on which the
\* .str accessor raises AttributeError
ColumnIsText(cells) == Len(cells) = 0 \/ \E i \in 1..Len(cells) : IsStr(cells[i])

(***************************************************************************)
(* clean_symptom                                                           *)
(***************************************************************************)
clean_symptom(symptom) ==
    IF IsStr(symptom) THEN str_lower(str_strip(symptom)) ELSE <<>>

(***************************************************************************)
(* display_disease_description                                             *)
(***************************************************************************)
display_disease_description(disease_name, dfs) ==
    IF "symptom_description" \in DOMAIN dfs
    THEN LET df == dfs["symptom_description"]
             Hit(r) == cell_lower(r.Disease) = str_lower(disease_name)
             filtered_df == SelectSeq(df, Hit)
         IN  IF ~ColumnIsText([i \in 1..Len(df) |-> df[i].Disease])
             THEN Raised("AttributeError")
             ELSE IF filtered_df # <<>>
             THEN Outcome("Result", "Disease Description for '{}':",
                          str_capitalize(disease_name),
                          <<filtered_df[1].Description>>)
             ELSE Outcome("NotFound", "Disease '{}' not found in the dataset.",
                          disease_name, <<>>)
    ELSE Outcome("NotLoaded", "Symptom description dataset not loaded.", <<>>, <<>>)

(***************************************************************************)
(* match_symptoms                                                          *)
(***************************************************************************)
\* the cells of a dataset row in column order, as `for symptom in row` sees them
RowCells(r) == <<r.Disease>> \o r.slots

user_symptoms(symptoms_input) ==
    LET parts == str_split(symptoms_input)
    IN  [i \in 1..Len(parts) |-> clean_symptom(parts[i])]

\* the lambda of dataset_df.apply(..., axis=1)
RowMatches(r, user_symptoms_list) ==
    \E i \in 1..Len(RowCells(r)) :
        clean_symptom(RowCells(r)[i]) \in Range(user_symptoms_list)

\* Counter(...): the distinct keys in first-seen order
RECURSIVE CounterKeys(_)
CounterKeys(s) ==
    IF s = <<>> THEN <<>>
    ELSE LET front == CounterKeys(SubSeq(s, 1, Len(s) - 1))
         IN  IF s[Len(s)] \in Range(front) THEN front
             ELSE Append(front, s[Len(s)])

CountOf(s, d) == Cardinality({i \in 1..Len(s) : s[i] = d})

\* the place of a key in the stable descending sort: after every key whose
\* count is not smaller
InsertByCount(sorted, d, cnt) ==
    LET after == {i \in 1..Len(sorted) : cnt[sorted[i]] >= cnt[d]}
        k == IF after = {} THEN 0
             ELSE CHOOSE i \in after : \A j \in after : j <= i
    IN  SubSeq(sorted, 1, k) \o <<d>> \o SubSeq(sorted, k + 1, Len(sorted))

RECURSIVE SortByCount(_, _)
SortByCount(keys, cnt) ==
    IF keys = <<>> THEN <<>>
    ELSE InsertByCount(SortByCount(SubSeq(keys, 1, Len(keys) - 1), cnt),
                       keys[Len(keys)], cnt)

\* the keys as dict iteration gives them, without the sort of most_common()
InsertionOrder(s) == CounterKeys(s)

\* Counter.most_common(): keys by descending count, equal counts in
\* first-seen order
most_common(s) ==
    LET keys == CounterKeys(s)
        cnt == [d \in Range(keys) |-> CountOf(s, d)]
    IN  SortByCount(keys, cnt)

match_symptoms(symptoms_input, dfs) ==
    LET user_symptoms_list == user_symptoms(symptoms_input)
    IN  IF "dataset" \in DOMAIN dfs
        THEN LET dataset_df == dfs["dataset"]
                 Hit(r) == RowMatches(r, user_symptoms_list)
                 matched_diseases == SelectSeq(dataset_df, Hit)
                 diseases == [i \in 1..Len(matched_diseases) |->
                                 matched_diseases[i].Disease]
                 ranked == most_common(diseases)
             IN  IF matched_diseases # <<>>
                 THEN Outcome("Result",
                              "Potential diseases associated with your symptoms:",
                              <<>>,
                              [i \in 1..Len(ranked) |->
                                  <<ranked[i],
                                    FormatPercent(CountOf(diseases, ranked[i]),
                                                  Len(matched_diseases))>>])
                 ELSE Outcome("NotFound",
                              "No matching diseases found for the provided symptoms.",
                              <<>>, <<>>)
        ELSE Outcome("NotLoaded", "Dataset not loaded.", <<>>, <<>>)

(***************************************************************************)
(* display_precautions                                                     *)
(***************************************************************************)
\* filtered_df.iloc[0][['Precaution_1', ..., 'Precaution_4']].tolist()
PrecautionSlots(r) ==
    <<r.Precaution_1, r.Precaution_2, r.Precaution_3, r.Precaution_4>>

\* the list without the isinstance filter
Unfiltered(cells) == cells

\* [precaution for precaution in precautions if isinstance(precaution, str)]
StrOnly(cells) == SelectSeq(cells, IsStr)

display_precautions(disease_name, dfs) ==
    IF "symptom_precaution" \in DOMAIN dfs
    THEN LET df == dfs["symptom_precaution"]
             Hit(r) == cell_lower(r.Disease) = str_lower(disease_name)
             filtered_df == SelectSeq(df, Hit)
         IN  IF ~ColumnIsText([i \in 1..Len(df) |-> df[i].Disease])
             THEN Raised("AttributeError")
             ELSE IF filtered_df # <<>>
             THEN LET precautions == StrOnly(PrecautionSlots(filtered_df[1]))
                  IN  IF precautions # <<>>
                      THEN Outcome("Result", "Precautions for {}:",
                                   str_capitalize(disease_name), precautions)
                      ELSE Outcome("NoneListed",
                                   "No precautions listed for '{}' in the dataset.",
                                   disease_name, <<>>)
             ELSE Outcome("NotFound", "Disease '{}' not found in the dataset.",
                          disease_name, <<>>)
    ELSE Outcome("NotLoaded", "Symptom precaution dataset not loaded.", <<>>, <<>>)

(***************************************************************************)
(* display_symptom_severity                                                *)
(***************************************************************************)
display_symptom_severity(symptom_name, dfs) ==
    IF "Symptom-severity" \in DOMAIN dfs
    THEN LET df == dfs["Symptom-severity"]
             Hit(r) == cell_lower(r.Symptom) = str_lower(symptom_name)
             filtered_df == SelectSeq(df, Hit)
         IN  IF ~ColumnIsText([i \in 1..Len(df) |-> df[i].Symptom])
             THEN Raised("AttributeError")
             ELSE IF filtered_df # <<>>
             THEN Outcome("Result", "Severity of {}: {}",
                          str_capitalize(symptom_name),
                          <<NatToStr(filtered_df[1].weight)>>)
             ELSE Outcome("NotFound", "Symptom '{}' not found in the dataset.",
                          symptom_name, <<>>)
    ELSE Outcome("NotLoaded", "Symptom severity dataset not loaded.", <<>>, <<>>)

(***************************************************************************)
(* display_disease_causes, display_disease_diagnosis,                      *)
(* display_disease_research: the same filter over the Q&A table, with the  *)
(* topic keywords 'cause', 'diagnose' and 'research'.                      *)
(***************************************************************************)
KwCause == <<"c","a","u","s","e">>
KwDiagnose == <<"d","i","a","g","n","o","s","e">>
KwResearch == <<"r","e","s","e","a","r","c","h">>

\* one row of question.str.lower().str.contains(disease_name) &
\*            question.str.lower().str.contains(keyword),
\* for the two compiled patterns
MedquadMask(r, name_regex, keyword_regex) ==
    /\ cell_contains(cell_lower(r.question), name_regex)
    /\ cell_contains(cell_lower(r.question), keyword_regex)

\* The pattern is disease_name as typed: it is neither stripped nor lowered.
\* The first .str access raises on a column that is not text, then the first
\* str.contains compiles disease_name.
MedquadLookup(disease_name, dfs, keyword, found, notfound) ==
    IF "medquad" \in DOMAIN dfs
    THEN LET medquad_df == dfs["medquad"]
             answers(name_regex, keyword_regex) ==
                 LET Hit(r) == MedquadMask(r, name_regex.node, keyword_regex.node)
                     matched_row == SelectSeq(medquad_df, Hit)
                 IN  IF name_regex.err = Unmodelled
                     THEN Outcome(Unmodelled, "", disease_name, <<>>)
                     ELSE IF name_regex.err # ""
                     THEN Raised("re.error")
                     ELSE IF matched_row # <<>>
                     THEN Outcome("Result", found, str_capitalize(disease_name),
                                  [i \in 1..Len(matched_row) |-> matched_row[i].answer])
                     ELSE Outcome("NotFound", notfound, disease_name, <<>>)
         IN  IF ~ColumnIsText([i \in 1..Len(medquad_df) |-> medquad_df[i].question])
             THEN Raised("AttributeError")
             ELSE answers(re_compile(disease_name), re_compile(keyword))
    ELSE Outcome("NotLoaded", "Medquad dataset not loaded.", <<>>, <<>>)

display_disease_causes(disease_name, dfs) ==
    MedquadLookup(disease_name, dfs, KwCause,
                  "Causes of {} (from 'medquad' dataset):",
                  "No causes found for '{}' in the 'medquad' dataset.")

display_disease_diagnosis(disease_name, dfs) ==
    MedquadLookup(disease_name, dfs, KwDiagnose,
                  "Diagnosis of {} (from 'medquad' dataset):",
                  "No diagnosis found for '{}' in the 'medquad' dataset.")

display_disease_research(disease_name, dfs) ==
    MedquadLookup(disease_name, dfs, KwResearch,
                  "Research about {} (from 'medquad' dataset):",
                  "No research information found for '{}' in the 'medquad' dataset.")

(***************************************************************************)
(* handle_user_query: the operation a selectbox choice runs.               *)
(***************************************************************************)
QueryChoices ==
    {"Disease Description", "Symptom Matching", "Precautions for a Disease",
     "Symptom Severity", "Causes of a Disease", "Diagnosis of a Disease",
     "Research about a Disease"}

handle_user_query(ch, text, dfs) ==
    CASE ch = "Disease Description" -> display_disease_description(text, dfs)
      [] ch = "Symptom Matching" -> match_symptoms(text, dfs)
      [] ch = "Precautions for a Disease" -> display_precautions(text, dfs)
      [] ch = "Symptom Severity" -> display_symptom_severity(text, dfs)
      [] ch = "Causes of a Disease" -> display_disease_causes(text, dfs)
      [] ch = "Diagnosis of a Disease" -> display_disease_diagnosis(text, dfs)
      [] ch = "Research about a Disease" -> display_disease_research(text, dfs)

\* the key of `dataframes` each operation reads
TableOf(ch) ==
    CASE ch = "Disease Description" -> "symptom_description"
      [] ch = "Symptom Matching" -> "dataset"
      [] ch = "Precautions for a Disease" -> "symptom_precaution"
      [] ch = "Symptom Severity" -> "Symptom-severity"
      [] OTHER -> "medquad"

(***************************************************************************)
(* The start-up loader.                                                    *)
(***************************************************************************)
filenames ==
    <<[stem |-> "dataset", ext |-> ".csv"],
      [stem |-> "symptom_description", ext |-> ".csv"],
      [stem |-> "symptom_precaution", ext |-> ".csv"],
      [stem |-> "Symptom-severity", ext |-> ".csv"],
      [stem |-> "medquad", ext |-> ".csv"]>>

\* os.path.splitext(os.path.basename(filepath))[0]
df_name(filepath) == filepath.stem

TableNames == {df_name(filenames[i]) : i \in 1..Len(filenames)}

\* what pd.read_csv does with a file: "ok" returns its table, the others raise
\* FileNotFoundError, EmptyDataError and ParserError
FileKinds == {"ok", "missing", "empty", "malformed"}

\* the load loop without its `except pd.errors.ParserError` clause
CaughtWithoutParserError(kind) == kind \in {"missing", "empty"}

\* the except clauses of the load loop
Caught(kind) == kind \in {"missing", "empty", "malformed"}

\* one iteration of `for filepath in filepaths`
LoadStep ==
    /\ pc = "load"
    /\ idx <= Len(filenames)
    /\ LET name == df_name(filenames[idx])
           f == files[name]
       IN  IF f.kind = "ok"
           THEN /\ dataframes' = [n \in DOMAIN dataframes \cup {name} |->
                                     IF n = name THEN f.table ELSE dataframes[n]]
                /\ idx' = idx + 1
                /\ pc' = IF idx + 1 > Len(filenames) THEN "serve" ELSE "load"
           ELSE IF Caught(f.kind)
           THEN /\ dataframes' = dataframes
                /\ idx' = idx + 1
                /\ pc' = IF idx + 1 > Len(filenames) THEN "serve" ELSE "load"
           ELSE /\ dataframes' = dataframes
                /\ idx' = idx
                /\ pc' = "crashed"
    /\ UNCHANGED <<files, choice, input, out>>

(***************************************************************************)
(* main: `while True`, one pass being get_user_query, then the break on    *)
(* "Exit" or handle_user_query with the text typed.  `out` is what the     *)
(* current pass has written.  An exception leaving the operation ends the  *)
(* script.                                                                 *)
(***************************************************************************)
get_user_query(choices) ==
    /\ pc = "serve"
    /\ \E ch \in choices : choice' = ch
    /\ input' = <<>>
    /\ out' = NoOutcome
    /\ pc' = "handle"
    /\ UNCHANGED <<files, dataframes, idx>>

Exit ==
    /\ pc = "serve"
    /\ choice' = "Exit"
    /\ input' = <<>>
    /\ out' = NoOutcome
    /\ pc' = "stopped"
    /\ UNCHANGED <<files, dataframes, idx>>

\* where the loop goes after an operation that wrote `o`
AfterQuery(o) == IF o.kind = "Error" THEN "crashed" ELSE "serve"

DescribeDisease(texts) ==
    /\ pc = "handle"
    /\ choice = "Disease Description"
    /\ \E text \in texts :
          /\ input' = text
          /\ out' = display_disease_description(text, dataframes)
    /\ pc' = AfterQuery(out')
    /\ UNCHANGED <<files, dataframes, idx, choice>>

MatchSymptoms(texts) ==
    /\ pc = "handle"
    /\ choice = "Symptom Matching"
    /\ \E text \in texts :
          /\ input' = text
          /\ out' = match_symptoms(text, dataframes)
    /\ pc' = AfterQuery(out')
    /\ UNCHANGED <<files, dataframes, idx, choice>>

Precautions(texts) ==
    /\ pc = "handle"
    /\ choice = "Precautions for a Disease"
    /\ \E text \in texts :
          /\ input' = text
          /\ out' = display_precautions(text, dataframes)
    /\ pc' = AfterQuery(out')
    /\ UNCHANGED <<files, dataframes, idx, choice>>

Severity(texts) ==
    /\ pc = "handle"
    /\ choice = "Symptom Severity"
    /\ \E text \in texts :
          /\ input' = text
          /\ out' = display_symptom_severity(text, dataframes)
    /\ pc' = AfterQuery(out')
    /\ UNCHANGED <<files, dataframes, idx, choice>>

Causes(texts) ==
    /\ pc = "handle"
    /\ choice = "Causes of a Disease"
    /\ \E text \in texts :
          /\ input' = text
          /\ out' = display_disease_causes(text, dataframes)
    /\ pc' = AfterQuery(out')
    /\ UNCHANGED <<files, dataframes, idx, choice>>

Diagnosis(texts) ==
    /\ pc = "handle"
    /\ choice = "Diagnosis of a Disease"
    /\ \E text \in texts :
          /\ input' = text
          /\ out' = display_disease_diagnosis(text, dataframes)
    /\ pc' = AfterQuery(out')
    /\ UNCHANGED <<files, dataframes, idx, choice>>

Research(texts) ==
    /\ pc = "handle"
    /\ choice = "Research about a Disease"
    /\ \E text \in texts :
          /\ input' = text
          /\ out' = display_disease_research(text, dataframes)
    /\ pc' = AfterQuery(out')
    /\ UNCHANGED <<files, dataframes, idx, choice>>

(***************************************************************************)
(* Table contents and typed texts the scenarios are built from.            *)
(***************************************************************************)
T_flu == <<"f","l","u">>
T_Flu == <<"F","l","u">>
T_flu_sp == <<" ","f","l","u">>
T_acne == <<"a","c","n","e">>
T_Acne == <<"A","c","n","e">>
T_CommonCold == <<"C","o","m","m","o","n"," ","C","o","l","d">>
T_cold == <<"c","o","l","d">>
T_cough == <<"c","o","u","g","h">>
T_Cough_sp == <<" ","C","o","u","g","h"," ">>
T_Fever_sp == <<" ","F","e","v","e","r">>
T_fever == <<"f","e","v","e","r">>
T_rash == <<"r","a","s","h">>
T_cou == <<"c","o","u">>
T_cough_fever == <<"c","o","u","g","h",","," ","f","e","v","e","r">>
T_fever_rash == <<" ","F","e","v","e","r"," ",",","r","a","s","h">>
T_commas == <<" ",","," ">>
T_space == <<" ">>
T_paren == <<"(","f","l","u">>
T_group == <<"(","f","l","u",")">>
T_flu_opt == <<"f","l","u"," ","?">>
T_vt_cough == <<"<U+000B>","c","o","u","g","h">>
T_Meniere == <<"M","é","n","i","è","r","e">>
T_MENIERE == <<"M","É","N","I","È","R","E">>
T_ear == <<"e","a","r">>
T_zzz == <<"z","z","z">>
T_viral == <<"v","i","r","a","l">>
T_skin == <<"s","k","i","n">>
T_rest == <<"r","e","s","t">>
T_fluids == <<"f","l","u","i","d","s">>
T_wash == <<"w","a","s","h">>
T_mask == <<"m","a","s","k">>
Q_causes_flu == <<"W","h","a","t"," ","c","a","u","s","e","s"," ","F","l","u"," ","?">>
Q_causes_acne == <<"w","h","a","t"," ","c","a","u","s","e","s"," ","a","c","n","e">>
Q_diagnose_flu == <<"H","o","w"," ","t","o"," ","d","i","a","g","n","o","s","e"," ","f","l","u">>
Q_research_acne == <<"R","e","s","e","a","r","c","h"," ","o","n"," ","A","c","n","e">>
Q_what_is_flu == <<"W","h","a","t"," ","i","s"," ","f","l","u">>
Q_flu_again == <<"C","a","u","s","e","s"," ","o","f"," ","F","L","U">>
A_virus == <<"v","i","r","u","s">>
A_test == <<"t","e","s","t">>
A_trial == <<"t","r","i","a","l">>
A_illness == <<"i","l","l","n","e","s","s">>
A_oil == <<"o","i","l">>
T_empty == <<>>

DatasetRow(d, s1, s2) == [Disease |-> d, slots |-> <<s1, s2>>]
DescriptionRow(d, t) == [Disease |-> d, Description |-> t]
PrecautionRow(d, p1, p2, p3, p4) ==
    [Disease |-> d, Precaution_1 |-> p1, Precaution_2 |-> p2,
     Precaution_3 |-> p3, Precaution_4 |-> p4]
SeverityRow(s, w) == [Symptom |-> s, weight |-> w]
MedquadRow(q, a) == [question |-> q, answer |-> a]

FixDataset ==
    <<DatasetRow(T_CommonCold, T_cough, NaN),
      DatasetRow(T_Flu, T_Cough_sp, T_Fever_sp),
      DatasetRow(T_Acne, T_rash, T_Fever_sp)>>

FixDescription ==
    <<DescriptionRow(T_Flu, T_viral), DescriptionRow(T_Acne, T_skin),
      DescriptionRow(NaN, NaN), DescriptionRow(T_Meniere, T_ear)>>

FixPrecaution ==
    <<PrecautionRow(T_Flu, T_rest, NaN, T_fluids, NaN),
      PrecautionRow(T_Acne, NaN, NaN, NaN, NaN)>>

FixSeverity == <<SeverityRow(T_cough, 4), SeverityRow(T_Fever_sp, 7)>>

FixMedquad ==
    <<MedquadRow(Q_causes_flu, A_virus),
      MedquadRow(Q_what_is_flu, A_illness),
      MedquadRow(Q_diagnose_flu, A_test),
      MedquadRow(Q_causes_acne, A_oil),
      MedquadRow(NaN, NaN),
      MedquadRow(Q_research_acne, A_trial),
      MedquadRow(Q_flu_again, NaN)>>

FixTable(n) ==
    CASE n = "dataset" -> FixDataset
      [] n = "symptom_description" -> FixDescription
      [] n = "symptom_precaution" -> FixPrecaution
      [] n = "Symptom-severity" -> FixSeverity
      [] n = "medquad" -> FixMedquad

\* a file read_csv parses into `table`, and a file it raises on
OkFile(table) == [kind |-> "ok", table |-> table]
BadFile(kind) == [kind |-> kind, table |-> <<>>]

\* every sequence of at most n elements of S
SeqsUpTo(S, n) == UNION {[1..k -> S] : k \in 0..n}

\* the texts a user types in the whole-system scenario
Texts ==
    {T_empty, T_space, T_commas, T_flu, T_Flu, T_flu_sp, T_acne, T_cough,
     T_cough_fever, T_cou, T_paren, T_zzz, T_group, T_flu_opt, T_vt_cough,
     T_MENIERE}

(***************************************************************************)
(* Spec: the whole program.  Each of the five files independently parses   *)
(* or fails in one of the three caught ways; then any query, any text.     *)
(***************************************************************************)
\* `dataframes = {}`.  The script gets this far only with ACCESS_TOKEN set
\* (line 13 raises ValueError otherwise).
EmptyDict == [n \in {} |-> <<>>]

Start ==
    /\ dataframes = EmptyDict
    /\ idx = 1
    /\ pc = "load"
    /\ choice = "None"
    /\ input = <<>>
    /\ out = NoOutcome

\* the file system in which the files of `kinds` parse into the tables of
\* `tables` and the others fail as `kinds` says
FileSystem(kinds, tables) ==
    [n \in TableNames |->
        IF kinds[n] = "ok" THEN OkFile(tables[n]) ELSE BadFile(kinds[n])]

AllOk == [n \in TableNames |-> "ok"]
FixTables == [n \in TableNames |-> FixTable(n)]

Init ==
    /\ \E kinds \in [TableNames -> FileKinds] : files = FileSystem(kinds, FixTables)
    /\ Start

Next ==
    \/ LoadStep
    \/ get_user_query(QueryChoices)
    \/ DescribeDisease(Texts)
    \/ MatchSymptoms(Texts)
    \/ Precautions(Texts)
    \/ Severity(Texts)
    \/ Causes(Texts)
    \/ Diagnosis(Texts)
    \/ Research(Texts)
    \/ Exit

Spec == Init /\ [][Next]_vars

(***************************************************************************)
(* Vocabulary of the properties, as the specification words them.          *)
(***************************************************************************)
\* the normalized form of the specification: trimmed, then lower-cased
Normalize(s) == str_lower(str_strip(s))

\* needle occurs in hay as a plain substring
Contains(hay, needle) ==
    \E k \in 0..(Len(hay) - Len(needle)) : SubSeq(hay, k + 1, k + Len(needle)) = needle

\* an operation has run in the current pass and `out` is what it did
Answered == choice \in QueryChoices /\ pc \in {"serve", "crashed"}

Loaded(n) == n \in DOMAIN dataframes

ExactChoices ==
    {"Disease Description", "Precautions for a Disease", "Symptom Severity"}

QAChoices ==
    {"Causes of a Disease", "Diagnosis of a Disease", "Research about a Disease"}

KeywordOf(ch) ==
    CASE ch = "Causes of a Disease" -> KwCause
      [] ch = "Diagnosis of a Disease" -> KwDiagnose
      [] ch = "Research about a Disease" -> KwResearch

\* the normalized query tokens of a symptom text
QueryTokens(text) == {Normalize(t) : t \in Range(str_split(text))}

\* a matched row in the words of the specification: some symptom slot holds
\* text whose normalized form is one of the normalized query tokens
SlotMatched(r, text) ==
    \E k \in 1..Len(r.slots) :
        IsStr(r.slots[k]) /\ Normalize(r.slots[k]) \in QueryTokens(text)

\* the key cell an exact-match lookup compares
KeyCell(ch, r) == IF ch = "Symptom Severity" THEN r.Symptom ELSE r.Disease

\* the rows the Q&A lookups are to return, in the words of the specification
Qualifying(ch, r, text) ==
    /\ IsStr(r.question)
    /\ Contains(Normalize(r.question), Normalize(text))
    /\ Contains(Normalize(r.question), KeywordOf(ch))

(***************************************************************************)
(* C10.  After the load loop a table name is a key of `dataframes` exactly *)
(* when its own file parsed, whatever happened to the other four files:    *)
(* while the loop runs, every file already visited is present with its own *)
(* table if it parsed and absent otherwise, no file not yet visited is     *)
(* present, and the loop is left only after the fifth file.                *)
(***************************************************************************)
LoaderIndependent ==
    /\ pc = "load" => idx <= Len(filenames)
    /\ pc # "load" => idx = Len(filenames) + 1
    /\ \A i \in 1..Len(filenames) :
          LET n == df_name(filenames[i])
          IN  IF i < idx
              THEN /\ Loaded(n) <=> files[n].kind = "ok"
                   /\ Loaded(n) => dataframes[n] = files[n].table
              ELSE ~Loaded(n)

\* the loop has finished although the first three files failed in the three
\* different ways, and the two files after them are loaded
LoaderIndependentWitness ==
    /\ pc = "serve"
    /\ files["dataset"].kind = "malformed"
    /\ files["symptom_description"].kind = "missing"
    /\ files["symptom_precaution"].kind = "empty"
    /\ DOMAIN dataframes = {"Symptom-severity", "medquad"}

(***************************************************************************)
(* C2.  An input whose normalized form is empty yields NotFound from every *)
(* operation whose table is loaded: for match_symptoms, a text all of      *)
(* whose comma-separated tokens normalize to the empty string; for the     *)
(* six lookups, the empty text.                                            *)
(***************************************************************************)
NormalizedEmpty(ch, text) ==
    IF ch = "Symptom Matching" THEN QueryTokens(text) = {<<>>} ELSE text = <<>>

EmptyInputIsNotFound ==
    (Answered /\ Loaded(TableOf(choice)) /\ NormalizedEmpty(choice, input))
        => out.kind = "NotFound"

(***************************************************************************)
(* C3.  An operation whose table is absent writes the "not loaded" message *)
(* and nothing else; one whose table is loaded and holds no row satisfying *)
(* the match predicate writes a "not found" message; "not loaded" is never *)
(* written for a loaded table nor "not found" for an absent one.           *)
(***************************************************************************)
\* the row test each operation applies
Selects(ch, r, text) ==
    IF ch = "Symptom Matching" THEN RowMatches(r, user_symptoms(text))
    ELSE IF ch \in ExactChoices THEN cell_lower(KeyCell(ch, r)) = str_lower(text)
    ELSE /\ ReCompiles(text)
         /\ MedquadMask(r, re_compile(text).node, re_compile(KeywordOf(ch)).node)

NotLoadedAndNotFoundApart ==
    Answered =>
        LET t == TableOf(choice)
        IN  /\ ~Loaded(t) => (out.kind = "NotLoaded" /\ out.items = <<>>)
            /\ (Loaded(t) /\ \A i \in 1..Len(dataframes[t]) :
                                 ~Selects(choice, dataframes[t][i], input))
                  => out.kind = "NotFound"
            /\ out.kind = "NotLoaded" => ~Loaded(t)
            /\ out.kind = "NotFound" => Loaded(t)

(***************************************************************************)
(* C4.  No query operation ends in an exception, whatever the text typed   *)
(* and whatever tables are loaded.                                         *)
(***************************************************************************)
NoQueryRaises == out.kind # "Error" /\ pc # "crashed"

(***************************************************************************)
(* C5.  In match_symptoms a row is matched exactly when one of its symptom *)
(* slots, normalized, equals a normalized query token: the rows the        *)
(* operation selects are those rows, so it reports a result exactly when   *)
(* there is one, and the diseases it reports are theirs.                   *)
(***************************************************************************)
MatchedIffSymptomSlot ==
    (Answered /\ choice = "Symptom Matching" /\ Loaded("dataset")) =>
        LET df == dataframes["dataset"]
            hits == {i \in 1..Len(df) : SlotMatched(df[i], input)}
        IN  /\ \A i \in 1..Len(df) :
                  RowMatches(df[i], user_symptoms(input)) <=> i \in hits
            /\ out.kind = "Result" <=> hits # {}
            /\ {out.items[k][1] : k \in 1..Len(out.items)}
                  = {df[i].Disease : i \in hits}

(***************************************************************************)
(* C6.  The exact-match lookups (description, precautions, severity) give  *)
(* the same result for any two texts with the same normalized form.        *)
(***************************************************************************)
SameNormalizedSameResult ==
    (Answered /\ choice \in ExactChoices) =>
        \A t \in Texts :
            Normalize(t) = Normalize(input) =>
                LET o == handle_user_query(choice, t, dataframes)
                IN  o.kind = out.kind /\ o.items = out.items

(***************************************************************************)
(* C7.  The cause, diagnosis and research lookups return the answers of    *)
(* exactly the rows whose normalized question contains the normalized      *)
(* disease name and the topic keyword, in table order, and NotFound when   *)
(* there is no such row.                                                   *)
(***************************************************************************)
QAReturnsQualifyingRows ==
    (Answered /\ choice \in QAChoices /\ Loaded("medquad")) =>
        LET df == dataframes["medquad"]
            Qualifies(r) == Qualifying(choice, r, input)
            rows == SelectSeq(df, Qualifies)
        IN  IF rows = <<>> THEN out.kind = "NotFound"
            ELSE /\ out.kind = "Result"
                 /\ out.items = [i \in 1..Len(rows) |-> rows[i].answer]

(***************************************************************************)
(* SpecRank: every symptom-disease dataset of at most MaxRankRows rows     *)
(* drawn from RankRows, the other four tables fixed; symptom matching      *)
(* with the texts of RankTexts.                                            *)
(***************************************************************************)
RankRows ==
    {DatasetRow(T_CommonCold, T_cough, NaN),
     DatasetRow(T_CommonCold, T_Fever_sp, T_Cough_sp),
     DatasetRow(T_Flu, T_cough, T_Fever_sp),
     DatasetRow(T_Flu, T_Fever_sp, NaN),
     DatasetRow(T_Acne, T_Cough_sp, NaN),
     DatasetRow(T_Acne, T_rash, T_rash)}

RankTexts ==
    {T_cough, T_vt_cough, T_cough_fever, T_fever_rash, T_rash, T_flu, T_empty, T_zzz}

InitRank ==
    /\ \E ds \in SeqsUpTo(RankRows, MaxRankRows) :
          files = FileSystem(AllOk, [FixTables EXCEPT !["dataset"] = ds])
    /\ Start

NextRank ==
    \/ LoadStep
    \/ get_user_query({"Symptom Matching"})
    \/ MatchSymptoms(RankTexts)

SpecRank == InitRank /\ [][NextRank]_vars

\* the rows match_symptoms selected for the text typed
MatchedRows ==
    {i \in 1..Len(dataframes["dataset"]) :
        RowMatches(dataframes["dataset"][i], user_symptoms(input))}

MatchedCount(d) ==
    Cardinality({i \in MatchedRows : dataframes["dataset"][i].Disease = d})

MatchedSome ==
    /\ Answered
    /\ choice = "Symptom Matching"
    /\ Loaded("dataset")
    /\ MatchedRows # {}

DigitValue(c) == (CHOOSE i \in 1..Len(DigitChars) : DigitChars[i] = c) - 1

RECURSIVE DigitsValue(_)
DigitsValue(t) ==
    IF t = <<>> THEN 0
    ELSE 10 * DigitsValue(SubSeq(t, 1, Len(t) - 1)) + DigitValue(t[Len(t)])

\* digits, a point, two digits
TwoDecimals(t) ==
    /\ Len(t) >= 4
    /\ t[Len(t) - 2] = "."
    /\ \A i \in 1..Len(t) : i # Len(t) - 2 => t[i] \in Range(DigitChars)

\* the number a two-decimal text denotes, in hundredths
Hundredths(t) ==
    100 * DigitsValue(SubSeq(t, 1, Len(t) - 3)) + DigitsValue(SubSeq(t, Len(t) - 1, Len(t)))

Abs(x) == IF x < 0 THEN -x ELSE x

(***************************************************************************)
(* C1.  When some row is matched, match_symptoms reports every disease of  *)
(* the matched rows exactly once and nothing else, by descending count     *)
(* among the matched rows, equal counts in first-seen order, each with     *)
(* count / matched rows * 100 as a two-decimal text; 3 matched rows of     *)
(* Common Cold and 1 of Flu are reported as Common Cold 75.00, Flu 25.00.  *)
(***************************************************************************)
RankedReport ==
    MatchedSome =>
        LET df == dataframes["dataset"]
            n == Len(out.items)
            rows == MatchedRows
            total == Cardinality(rows)
            diseases == {df[i].Disease : i \in rows}
            count == [d \in diseases |-> Cardinality({i \in rows : df[i].Disease = d})]
            first == [d \in diseases |->
                         CHOOSE i \in rows :
                             /\ df[i].Disease = d
                             /\ \A j \in rows : df[j].Disease = d => i <= j]
        IN  /\ out.kind = "Result"
            /\ \A d \in diseases : Cardinality({k \in 1..n : out.items[k][1] = d}) = 1
            /\ \A k \in 1..n : out.items[k][1] \in diseases
            /\ \A k \in 1..n : \A l \in 1..n :
                  k < l =>
                      LET a == out.items[k][1]
                          b == out.items[l][1]
                      IN  \/ count[a] > count[b]
                          \/ count[a] = count[b] /\ first[a] < first[b]
            /\ \A k \in 1..n :
                  /\ TwoDecimals(out.items[k][2])
                  /\ 2 * Abs(Hundredths(out.items[k][2]) * total
                               - 10000 * count[out.items[k][1]]) <= total
            /\ ( /\ total = 4
                 /\ diseases = {T_CommonCold, T_Flu}
                 /\ count[T_CommonCold] = 3 )
                  => out.items = << <<T_CommonCold, <<"7","5",".","0","0">> >>,
                                    <<T_Flu, <<"2","5",".","0","0">> >> >>

\* "cough" matched one Flu row first and three Common Cold rows after it
RankedReportWitness ==
    /\ MatchedSome
    /\ input = T_cough
    /\ Cardinality(MatchedRows) = 4
    /\ dataframes["dataset"][1].Disease = T_Flu
    /\ MatchedCount(T_CommonCold) = 3
    /\ out.items[1][1] = T_CommonCold

(***************************************************************************)
(* C9.  When some row is matched, the counts of the reported diseases add  *)
(* up to the number of matched rows and the reported percentages add up to *)
(* 100.00 within 0.005 for each reported disease.                          *)
(***************************************************************************)
RECURSIVE SumSeq(_)
SumSeq(xs) ==
    IF xs = <<>> THEN 0 ELSE SumSeq(SubSeq(xs, 1, Len(xs) - 1)) + xs[Len(xs)]

PercentagesSumTo100 ==
    MatchedSome =>
        LET df == dataframes["dataset"]
            rows == MatchedRows
            counts == [k \in 1..Len(out.items) |->
                          Cardinality({i \in rows : df[i].Disease = out.items[k][1]})]
            shares == [k \in 1..Len(out.items) |-> Hundredths(out.items[k][2])]
        IN  /\ SumSeq(counts) = Cardinality(rows)
            /\ 2 * Abs(SumSeq(shares) - 10000) <= Len(out.items)

\* three diseases with one matched row each: 33.33 three times, 99.99 in all
PercentagesSumTo100Witness ==
    /\ MatchedSome
    /\ Len(out.items) = 3
    /\ Cardinality(MatchedRows) = 3
    /\ \A k \in 1..3 : out.items[k][2] = <<"3","3",".","3","3">>

(***************************************************************************)
(* SpecPrecaution: every precaution table of at most MaxRows rows drawn    *)
(* from PrecautionRows, the other four tables fixed; the precaution lookup *)
(* with the texts of PrecautionTexts.                                      *)
(***************************************************************************)
PrecautionRows ==
    {PrecautionRow(d, p1, p2, p3, p4) :
        d \in {T_Flu, T_acne, NaN}, p1 \in {NaN, T_rest}, p2 \in {NaN, T_fluids},
        p3 \in {NaN, T_wash}, p4 \in {NaN, T_mask}}

PrecautionTexts == {T_flu, T_Flu, T_flu_sp, T_Acne, T_zzz}

InitPrecaution ==
    /\ \E tb \in SeqsUpTo(PrecautionRows, MaxRows) :
          files = FileSystem(AllOk, [FixTables EXCEPT !["symptom_precaution"] = tb])
    /\ Start

NextPrecaution ==
    \/ LoadStep
    \/ get_user_query({"Precautions for a Disease"})
    \/ Precautions(PrecautionTexts)

SpecPrecaution == InitPrecaution /\ [][NextPrecaution]_vars

\* the rows of the precaution table whose disease is the one asked for
FoundRows ==
    {i \in 1..Len(dataframes["symptom_precaution"]) :
        LET d == dataframes["symptom_precaution"][i].Disease
        IN  IsStr(d) /\ str_lower(d) = str_lower(input)}

FirstFound == CHOOSE i \in FoundRows : \A j \in FoundRows : i <= j

SlotOf(r, k) ==
    CASE k = 1 -> r.Precaution_1
      [] k = 2 -> r.Precaution_2
      [] k = 3 -> r.Precaution_3
      [] k = 4 -> r.Precaution_4

PrecautionFound ==
    /\ Answered
    /\ choice = "Precautions for a Disease"
    /\ Loaded("symptom_precaution")
    /\ FoundRows # {}

(***************************************************************************)
(* C8.  For a disease found in the precaution table, display_precautions   *)
(* returns the populated entries among Precaution_1..Precaution_4 of the   *)
(* first matching row, in slot order, the missing slots skipped, and       *)
(* reports that no precautions are listed when all four are missing.       *)
(***************************************************************************)
PrecautionsOfFirstRow ==
    PrecautionFound =>
        LET r == dataframes["symptom_precaution"][FirstFound]
            populated == {k \in 1..4 : IsStr(SlotOf(r, k))}
            \* the slot the j-th reported entry comes from
            Slot(j) == CHOOSE k \in populated :
                           Cardinality({m \in populated : m < k}) = j - 1
        IN  IF populated = {}
            THEN out.kind = "NoneListed" /\ out.items = <<>>
            ELSE /\ out.kind = "Result"
                 /\ Len(out.items) = Cardinality(populated)
                 /\ \A j \in 1..Len(out.items) : out.items[j] = SlotOf(r, Slot(j))

\* two rows of the disease asked for: the first has slots 2 and 4 populated,
\* the second all four
PrecautionsOfFirstRowWitness ==
    /\ PrecautionFound
    /\ FoundRows = {1, 2}
    /\ \A k \in 1..4 : IsStr(SlotOf(dataframes["symptom_precaution"][2], k))
    /\ out.items = <<T_fluids, T_mask>>

====
